---- MODULE Spec2Model ----
(***************************************************************************)
(* Model of the authenticated API-calling services of mcp-apps/api-tools:  *)
(*   - simpleApiService.ts            ApiService.callApi  (bearer/basic)    *)
(*   - api-service.ts, lines 1-119    ApiService.callApi  (+ interactive)   *)
(*   - api-service.ts, lines 121-470  ApiService.callApi  (msal,            *)
(*                                    azure-identity, retry loop)           *)
(*   - token-manager (README.md 155-282)  getAccessToken                    *)
(* Text values that the code computes on (tokens, user names, passwords,   *)
(* header values) are sequences of character codes; identifiers that are   *)
(* only compared (client ids, tenant ids, messages) are strings.           *)
(***************************************************************************)
EXTENDS Integers, Sequences, FiniteSets, TLC

\* ------------------------------------------------------------ bounds
\* Largest retryCount a descriptor asks for.
MaxRetryCfg == 5
\* Number of clock ticks (of one minute) the model lets pass.
MaxTicks == 2

\* --------------------------------------------------- optional values
\* A JavaScript value that may be undefined.
None == [some |-> FALSE, v |-> <<>>]
Some(s) == [some |-> TRUE, v |-> s]
\* JavaScript truthiness of an optional string: defined and not empty.
Truthy(o) == o.some /\ o.v # <<>>
\* `o || ''` on an optional string.
OrEmpty(o) == IF Truthy(o) THEN o.v ELSE <<>>

NoNum == [some |-> FALSE, n |-> 0]
Num(k) == [some |-> TRUE, n |-> k]

\* ------------------------------------------------------------- text
\* "Bearer " and "Basic " as character codes.
StrBearer == <<66, 101, 97, 114, 101, 114, 32>>
StrBasic == <<66, 97, 115, 105, 99, 32>>
\* ":"
StrColon == <<58>>

RECURSIVE Utf8(_)
\* Buffer.from(string): the UTF-8 bytes of a string of code points < 2048.
Utf8(s) ==
  IF s = <<>> THEN <<>>
  ELSE LET c == Head(s)
       IN  (IF c < 128 THEN <<c>>
            ELSE <<192 + (c \div 64), 128 + (c % 64)>>) \o Utf8(Tail(s))

\* The character of one base64 digit 0..63.
B64Char(i) ==
  IF i < 26 THEN 65 + i
  ELSE IF i < 52 THEN 97 + (i - 26)
  ELSE IF i < 62 THEN 48 + (i - 52)
  ELSE IF i = 62 THEN 43 ELSE 47

\* "="
B64Pad == <<61>>

RECURSIVE Base64(_)
\* buffer.toString('base64'): three bytes give four digits; a tail of one or
\* two bytes is padded with "=".
Base64(b) ==
  IF Len(b) = 0 THEN <<>>
  ELSE IF Len(b) = 1 THEN
    <<B64Char(b[1] \div 4), B64Char((b[1] % 4) * 16)>> \o B64Pad \o B64Pad
  ELSE IF Len(b) = 2 THEN
    <<B64Char(b[1] \div 4),
      B64Char((b[1] % 4) * 16 + (b[2] \div 16)),
      B64Char((b[2] % 16) * 4)>> \o B64Pad
  ELSE
    <<B64Char(b[1] \div 4),
      B64Char((b[1] % 4) * 16 + (b[2] \div 16)),
      B64Char((b[2] % 16) * 4 + (b[3] \div 64)),
      B64Char(b[3] % 64)>> \o Base64(SubSeq(b, 4, Len(b)))

\* `Bearer ${token}`
BearerHeader(token) == StrBearer \o token

\* Buffer.from(`${username}:${password}`).toString('base64') behind "Basic ".
BasicHeader(username, password) ==
  StrBasic \o Base64(Utf8(username \o StrColon \o password))

\* ------------------------------------------------ request descriptors
\* ApiRequestConfig. Identifiers are strings, "" standing for a missing
\* (or empty: both are falsy) value; authType "absent" is undefined.
BaseConfig ==
  [authType |-> "none", token |-> None, username |-> None, password |-> None,
   callerAuth |-> None, retryCount |-> NoNum, clientId |-> "", tenantId |-> "",
   authority |-> "", clientSecret |-> "", managedIdentityClientId |-> "",
   scopes |-> None]

\* "tk", "al", a name outside ASCII ("ü"), "p", "pw", "Custom x"
TokenT == <<116, 107>>
UserAl == <<97, 108>>
UserUe == <<252>>
PassP == <<112>>
PassPw == <<112, 119>>
CallerAuthValue == <<67, 117, 115, 116, 111, 109, 32, 120>>

Tokens == {None, Some(<<>>), Some(TokenT)}
Usernames == {None, Some(<<>>), Some(UserAl), Some(UserUe)}
Passwords == {None, Some(<<>>), Some(PassP), Some(PassPw)}
CallerAuths == {None, Some(CallerAuthValue)}
ScopeLists == {None, Some(<<>>), Some(<<"s1">>), Some(<<"s1", "s2">>)}
RetryCounts == {NoNum, Num(-1)} \cup {Num(k) : k \in 0..MaxRetryCfg}

\* Descriptors given to simpleApiService.ts (authType?: bearer | basic | none).
SimpleConfigs ==
  {[BaseConfig EXCEPT !.authType = a, !.token = t, !.username = u,
                      !.password = p, !.callerAuth = h] :
     a \in {"absent", "none", "bearer", "basic"}, t \in Tokens,
     u \in Usernames, p \in Passwords, h \in CallerAuths}

\* Descriptors given to api-service.ts (1-119): the same, plus interactive.
InteractiveConfigs ==
  {[BaseConfig EXCEPT !.authType = a, !.token = t, !.username = u,
                      !.callerAuth = h] :
     a \in {"absent", "none", "bearer", "basic"}, t \in Tokens,
     u \in {None, Some(UserAl)}, h \in CallerAuths}
  \cup
  {[BaseConfig EXCEPT !.authType = "interactive", !.clientId = c,
                      !.scopes = s, !.callerAuth = h, !.token = t] :
     c \in {"", "c1"}, s \in {None, Some(<<"s1">>)}, h \in CallerAuths,
     t \in {None, Some(TokenT)}}

\* Descriptors given to api-service.ts (121-470): msal | azure-identity | none.
AdvancedConfigs ==
  {[BaseConfig EXCEPT !.authType = "none", !.retryCount = r, !.callerAuth = h] :
     r \in RetryCounts, h \in CallerAuths}
  \cup
  {[BaseConfig EXCEPT !.authType = "none", !.callerAuth = h, !.clientId = "c1",
                      !.clientSecret = "secret", !.tenantId = "t1",
                      !.scopes = Some(<<"s1">>), !.retryCount = Num(1)] :
     h \in CallerAuths}
  \cup
  {[BaseConfig EXCEPT !.authType = "msal", !.retryCount = Num(1),
                      !.callerAuth = h, !.clientId = c] :
     h \in CallerAuths, c \in {"", "c1"}}
  \cup
  {[BaseConfig EXCEPT !.authType = "azure-identity", !.retryCount = Num(1),
                      !.clientId = i[1], !.clientSecret = i[2],
                      !.tenantId = i[3], !.scopes = s] :
     i \in {<<"", "", "">>, <<"c1", "secret", "t1">>},
     s \in {None, Some(<<>>), Some(<<"s1", "s2">>)}}

\* Mutant: the caller's headers object is used as it is.
CopyHeaders_Alias(cfg) == [own |-> FALSE, authorization |-> cfg.callerAuth]

\* const headers = { ...config.headers || {} }: an object of the call's own
\* that starts with the caller's Authorization header, if any.
CopyHeaders(cfg) == [own |-> TRUE, authorization |-> cfg.callerAuth]

\* The caller's descriptor after headers['Authorization'] has been given
\* the value the request goes out with: the caller's headers object is
\* written only when it is the object written to.
DescriptorAfter(cfg, headers, authorization) ==
  IF headers.own THEN cfg ELSE [cfg EXCEPT !.callerAuth = authorization]

\* ----------------------------------------------------- the transport
\* What a rejected axios call (or anything else in the try block) throws.
NoError == [kind |-> "none", hasResp |-> FALSE, status |-> 0, code |-> "", msg |-> ""]
AxiosNetwork ==
  [kind |-> "axios", hasResp |-> FALSE, status |-> 0, code |-> "ERR_NETWORK",
   msg |-> "Network Error"]
AxiosTimeout ==
  [kind |-> "axios", hasResp |-> FALSE, status |-> 0, code |-> "ECONNABORTED",
   msg |-> "timeout exceeded"]
AxiosStatus(s) ==
  [kind |-> "axios", hasResp |-> TRUE, status |-> s, code |-> "ERR_BAD_RESPONSE",
   msg |-> "Request failed with status code " \o ToString(s)]
JsError(m) == [kind |-> "error", hasResp |-> FALSE, status |-> 0, code |-> "", msg |-> m]
ThrownString(m) == [kind |-> "string", hasResp |-> FALSE, status |-> 0, code |-> "", msg |-> m]
ThrownNullish == [kind |-> "nullish", hasResp |-> FALSE, status |-> 0, code |-> "", msg |-> ""]

Statuses == {200, 304, 404, 500, 502, 503, 504}

Errors ==
  {AxiosNetwork, AxiosTimeout} \cup {AxiosStatus(s) : s \in Statuses \ {200, 304}}
  \cup {JsError("boom"), JsError(""), ThrownString("boom"), ThrownString(""),
        ThrownNullish}

\* response.statusText: the reason phrase of the status line, or '' when the
\* server sends none (as over HTTP/2).
ReasonPhrase(s) ==
  CASE s = 200 -> "OK"
    [] s = 304 -> "Not Modified"
    [] s = 404 -> "Not Found"
    [] s = 500 -> "Internal Server Error"
    [] s = 502 -> "Bad Gateway"
    [] s = 503 -> "Service Unavailable"
    [] s = 504 -> "Gateway Timeout"
    [] OTHER -> ""
StatusTexts(s) == {"", ReasonPhrase(s)}

ResolveWith(s, text) ==
  [resolved |-> TRUE, status |-> s, statusText |-> text, err |-> NoError]
Resolve(s) == ResolveWith(s, ReasonPhrase(s))
Reject(e) == [resolved |-> FALSE, status |-> 0, statusText |-> "", err |-> e]
NoOutcome == [resolved |-> FALSE, status |-> 0, statusText |-> "", err |-> NoError]

\* A stub standing in for axios is a list of the outcomes it gives, in order;
\* past its end, and for the empty list, any outcome may come. The stub that
\* fails with a simulated 503 twice and then succeeds:
Stub503Twice == <<Reject(AxiosStatus(503)), Reject(AxiosStatus(503)), Resolve(200)>>
Stubs == {<<>>, Stub503Twice}
\* Whether outcome o may end invocation number n of a transport under stub st.
StubAllows(st, n, o) == IF n > Len(st) THEN TRUE ELSE o = st[n]

\* axios' default validateStatus: 2xx resolves, anything else rejects.
DefaultValidateStatus(s) == s >= 200 /\ s < 300

\* validateStatus: (status) => true
AdvancedValidateStatus(s) == TRUE

\* What one axios call can end with under each validateStatus.
SimpleOutcomes ==
  {Resolve(s) : s \in {t \in Statuses : DefaultValidateStatus(t)}}
  \cup {Reject(e) : e \in Errors}
AdvancedOutcomes ==
  UNION {{ResolveWith(s, text) : text \in StatusTexts(s)} :
           s \in {t \in Statuses : AdvancedValidateStatus(t)}}
  \cup {Reject(e) : e \in Errors}

\* ------------------------------------------------------------ results
\* ApiResponse, or the exception that left callApi.
NoResult == [kind |-> "none", success |-> FALSE, status |-> 0, error |-> <<>>]
Returned(ok, st, err) == [kind |-> "returned", success |-> ok, status |-> st, error |-> err]
Threw(m) == [kind |-> "threw", success |-> FALSE, status |-> 0, error |-> <<m>>]

\* ------------------------------------- simpleApiService.ts: callApi
\* Mutant: the authType test of the bearer branch is left out.
SimpleAuthorization_AnyType(cfg) ==
  IF Truthy(cfg.token) THEN Some(BearerHeader(cfg.token.v))
  ELSE IF cfg.authType = "basic" /\ Truthy(cfg.username)
    THEN Some(BasicHeader(cfg.username.v, OrEmpty(cfg.password)))
  ELSE cfg.callerAuth

\* The Authorization header of the request callApi hands to axios: the
\* caller's headers are copied, then bearer or basic overwrites the entry
\* when its credential is given (a truthy token / username).
SimpleAuthorization(cfg) ==
  IF cfg.authType = "bearer" /\ Truthy(cfg.token)
    THEN Some(BearerHeader(cfg.token.v))
  ELSE IF cfg.authType = "basic" /\ Truthy(cfg.username)
    THEN Some(BasicHeader(cfg.username.v, OrEmpty(cfg.password)))
  ELSE cfg.callerAuth

\* error.message || 'Unknown error occurred' (a thrown string has no message).
MessageOrUnknown(e) ==
  IF e.kind \in {"axios", "error"} /\ e.msg # "" THEN e.msg
  ELSE "Unknown error occurred"

\* error.response?.status || 500
StatusOr500(e) == IF e.hasResp /\ e.status # 0 THEN e.status ELSE 500

\* catch (error: any) { return { success: false, status: ..., error: ... } }
\* Reading error.response of null or undefined throws inside the handler.
SimpleCatch(e) ==
  IF e.kind = "nullish" THEN Threw("TypeError")
  ELSE Returned(FALSE, StatusOr500(e), <<MessageOrUnknown(e)>>)

\* What callApi completes with once the axios call has ended with o.
SimpleRespond(o) ==
  IF o.resolved THEN Returned(TRUE, o.status, <<>>) ELSE SimpleCatch(o.err)

\* ---------------------------- api-service.ts (121-470): callApi, retry
\* config.retryCount || 3
DefaultRetries == 3
MaxRetriesOf(cfg) ==
  IF cfg.retryCount.some /\ cfg.retryCount.n # 0 THEN cfg.retryCount.n
  ELSE DefaultRetries

\* Mutant: every error that carries a response counts as transient.
IsTransientError_AnyResponse(e) ==
  e.kind = "axios" /\ (~e.hasResp \/ e.code = "ECONNABORTED" \/ e.hasResp)

\* Mutant: the 502/503/504 clause of isTransientError is left out.
IsTransientError_NoStatus(e) ==
  e.kind = "axios" /\ (~e.hasResp \/ e.code = "ECONNABORTED")

\* isTransientError: no response, a timeout code, or a 502/503/504 response.
IsTransientError(e) ==
  /\ e.kind = "axios"
  /\ \/ ~e.hasResp
     \/ e.code = "ECONNABORTED"
     \/ e.hasResp /\ e.status \in {502, 503, 504}

Min(a, b) == IF a < b THEN a ELSE b

\* Mutant: the delay is not capped.
BackoffDelay_NoCap(k, jitter) == 1000 * (2 ^ k) + jitter

\* Math.min(1000 * (2 ** retryCount) + Math.random() * 1000, 10000)
BackoffDelay(k, jitter) == Min(1000 * (2 ^ k) + jitter, 10000)

\* The step in which time passes while a timer is pending, in ms.
TimerQuantum == 2500

\* setTimeout(resolve, delay): the timer fires once the delay has elapsed.
TimerDue(elapsed, ms) == elapsed >= ms

\* Values of Math.random() * 1000 (0 <= jitter < 1000).
Jitters == {0, 500, 999}

\* if (lastError): null, undefined and the empty string are falsy.
LastErrorSet(e) ==
  ~(e.kind \in {"none", "nullish"} \/ (e.kind = "string" /\ e.msg = ""))

\* The envelope built after the loop from lastError.
ErrorResponse(e) ==
  IF ~LastErrorSet(e)
    THEN Returned(FALSE, 500, <<"Unknown error occurred">>)
  ELSE IF e.kind = "axios" THEN Returned(FALSE, StatusOr500(e), <<e.msg>>)
  ELSE Returned(FALSE, 500, <<e.msg>>)

\* The envelope of a response that axios resolved with:
\* `HTTP Error: ${response.status} ${response.statusText || ''}` from 400 on.
AdvancedResponse(response) ==
  IF response.status >= 400
    THEN Returned(FALSE, response.status,
                  <<"HTTP Error: ", ToString(response.status), " ",
                    response.statusText>>)
  ELSE Returned(TRUE, response.status, <<>>)

\* Mutant: the authentication error is not caught by its own handler and
\* reaches the loop's catch, which reports it as a plain error.
AuthenticationError_Uncaught(m) == Returned(FALSE, 500, <<m>>)

\* authError.message || 'Unknown authentication error', behind the prefix.
AuthenticationError(m) ==
  Returned(FALSE, 401,
           <<"Authentication error: ",
             IF m # "" THEN m ELSE "Unknown authentication error">>)

\* ------------------- api-service.ts (121-470): getAuthorizationHeader
\* Access tokens the identity libraries hand out: "S" (MSAL silent),
\* "D" (MSAL device code), "Z" (Azure Identity).
TokSilent == <<83>>
TokDevice == <<68>>
TokAzure == <<90>>

\* What one header resolution did: calls to acquireTokenSilent and
\* acquireTokenByDeviceCode, credential objects constructed, calls to
\* credential.getToken or to the interactive identity provider, and the scope
\* (or scopes) asked for, and what the two MSAL calls ended with ("" when
\* not made).
NoAuthLog ==
  [silent |-> 0, device |-> 0, created |-> 0, getToken |-> 0, scopes |-> <<>>,
   silentResult |-> "", deviceResult |-> ""]

\* One call of getAuthorizationHeader: where it stands ("idle"; "accounts",
\* "silent", "device", "getToken": awaiting getAllAccounts,
\* acquireTokenSilent, acquireTokenByDeviceCode, credential.getToken;
\* "done"), its descriptor, what it returned or threw, and what it did.
AuthCall(p, cfg, ok, hdr, m, lg) ==
  [pc |-> p, cfg |-> cfg, ok |-> ok, header |-> hdr, msg |-> m, log |-> lg]
AuthIdle == AuthCall("idle", BaseConfig, FALSE, <<>>, "", NoAuthLog)
AuthAwaiting(p, cfg, lg) == AuthCall(p, cfg, FALSE, <<>>, "", lg)
AuthReturned(cfg, hdr, lg) == AuthCall("done", cfg, TRUE, hdr, "", lg)
AuthThrew(cfg, m, lg) == AuthCall("done", cfg, FALSE, <<>>, m, lg)

\* What the part of a call before its first await leaves: the call and the
\* two maps.
AuthStarted(call, clients, creds) ==
  [call |-> call, msalConfigs |-> clients, azureCredentials |-> creds]

\* authority || `https://login.microsoftonline.com/${tenantId || 'common'}`
FullAuthority(cfg) ==
  IF cfg.authority # "" THEN cfg.authority
  ELSE "https://login.microsoftonline.com/"
         \o (IF cfg.tenantId # "" THEN cfg.tenantId ELSE "common")

\* `${clientId}:${fullAuthority}`
MsalCacheKey(cfg) == cfg.clientId \o ":" \o FullAuthority(cfg)

\* Outcomes of the MSAL calls: acquireTokenSilent and
\* acquireTokenByDeviceCode return a token ("ok"), a result without
\* accessToken ("noToken") or null, or throw ("fail").
SilentOutcomes == {"ok", "null", "noToken", "fail"}
DeviceOutcomes == {"ok", "null", "noToken", "fail"}

\* scopes = [] when authConfig.scopes is undefined.
ScopesOrEmpty(cfg) == IF cfg.scopes.some THEN cfg.scopes.v ELSE <<>>

\* getMsalAuthHeader up to `await ...getAllAccounts()`: the client id
\* check, and the MSAL client created and stored unless the key has one.
GetMsalAuthHeader(cfg, clients, creds) ==
  IF cfg.clientId = ""
    THEN AuthStarted(AuthThrew(cfg, "ClientId is required for MSAL authentication",
                               NoAuthLog),
                     clients, creds)
  ELSE AuthStarted(AuthAwaiting("accounts", cfg, NoAuthLog),
                   clients \cup {MsalCacheKey(cfg)}, creds)

\* Mutant: the silent acquisition is tried without looking for an account.
HasAccounts_Always(accounts, key) == TRUE

\* accounts.length > 0, for the client under the key. accounts: the keys of
\* the MSAL clients whose token cache holds an account (a device-code
\* sign-in succeeded on them).
HasAccounts(accounts, key) == key \in accounts

\* getAllAccounts has answered: acquireTokenSilent is called when there is
\* an account, acquireTokenByDeviceCode when there is none.
MsalAfterAccounts(call, accounts) ==
  IF HasAccounts(accounts, MsalCacheKey(call.cfg))
    THEN AuthAwaiting("silent", call.cfg,
                      [call.log EXCEPT !.silent = @ + 1,
                                       !.scopes = ScopesOrEmpty(call.cfg)])
  ELSE AuthAwaiting("device", call.cfg,
                    [call.log EXCEPT !.device = @ + 1,
                                     !.scopes = ScopesOrEmpty(call.cfg)])

\* acquireTokenSilent has ended: an exception or no result leads to the
\* device code flow, a result is used (and must carry an access token).
MsalAfterSilent(call, outcome) ==
  LET lg == [call.log EXCEPT !.silentResult = outcome]
  IN  IF outcome \in {"fail", "null"}
        THEN AuthAwaiting("device", call.cfg, [lg EXCEPT !.device = @ + 1])
      ELSE IF outcome = "noToken"
        THEN AuthThrew(call.cfg, "Failed to acquire access token", lg)
      ELSE AuthReturned(call.cfg, BearerHeader(TokSilent), lg)

\* acquireTokenByDeviceCode has ended.
MsalAfterDevice(call, outcome) ==
  LET lg == [call.log EXCEPT !.deviceResult = outcome]
  IN  IF outcome = "fail" THEN AuthThrew(call.cfg, "device code flow failed", lg)
      ELSE IF outcome = "null"
        THEN AuthThrew(call.cfg, "Failed to acquire token through device code flow", lg)
      ELSE IF outcome = "noToken"
        THEN AuthThrew(call.cfg, "Failed to acquire access token", lg)
      ELSE AuthReturned(call.cfg, BearerHeader(TokDevice), lg)

\* The accounts after the device code flow of a client has ended.
AccountsAfterDevice(accounts, call, outcome) ==
  IF outcome = "ok" THEN accounts \cup {MsalCacheKey(call.cfg)} ELSE accounts

\* Mutant: one key for all the descriptors.
AzureCacheKey_Shared(cfg) == "default:default"

\* `${clientId || 'default'}:${tenantId || 'default'}`
AzureCacheKey(cfg) ==
  (IF cfg.clientId # "" THEN cfg.clientId ELSE "default") \o ":"
    \o (IF cfg.tenantId # "" THEN cfg.tenantId ELSE "default")

\* The credential class constructed for a descriptor.
AzureCredentialKind(cfg) ==
  IF cfg.clientId # "" /\ cfg.clientSecret # "" /\ cfg.tenantId # ""
    THEN "ClientSecretCredential" ELSE "DefaultAzureCredential"

\* Outcomes of the Azure Identity calls: the constructor returns or throws,
\* getToken returns a token, returns nothing, or throws.
ConstructOutcomes == {"ok", "fail"}
GetTokenOutcomes == {"ok", "null", "fail"}

\* getAzureIdentityAuthHeader up to `await credential.getToken(scope)`: the
\* scopes check, the credential of the key (constructed and stored when the
\* key has none), and the call of getToken for the first scope. creds: the
\* credential objects by cache key.
GetAzureIdentityAuthHeader(cfg, clients, creds, construct) ==
  IF ScopesOrEmpty(cfg) = <<>>
    THEN AuthStarted(AuthThrew(cfg, "Scopes are required for Azure Identity authentication",
                               NoAuthLog),
                     clients, creds)
  ELSE
    LET key == AzureCacheKey(cfg)
        cached == key \in DOMAIN creds
        kind == AzureCredentialKind(cfg)
        lg == [NoAuthLog EXCEPT !.created = IF cached THEN 0 ELSE 1,
                                !.getToken = 1,
                                !.scopes = <<ScopesOrEmpty(cfg)[1]>>]
    IN  IF ~cached /\ construct = "fail"
          THEN AuthStarted(AuthThrew(cfg, "Failed to create " \o kind \o ": boom",
                                     NoAuthLog),
                           clients, creds)
        ELSE AuthStarted(AuthAwaiting("getToken", cfg, lg), clients,
                         IF cached THEN creds ELSE (key :> kind) @@ creds)

\* credential.getToken has ended.
AzureAfterGetToken(call, outcome) ==
  IF outcome = "fail"
    THEN AuthThrew(call.cfg, "Failed to acquire token from Azure Identity: boom",
                   call.log)
  ELSE IF outcome = "null"
    THEN AuthThrew(call.cfg,
           "Failed to acquire token from Azure Identity: No token returned from Azure Identity",
           call.log)
  ELSE AuthReturned(call.cfg, BearerHeader(TokAzure), call.log)

\* The constructor outcomes that matter to a descriptor's resolution.
ConstructOutcomesFor(cfg) ==
  IF cfg.authType = "azure-identity" THEN ConstructOutcomes ELSE {"ok"}

\* getAuthorizationHeader up to its first await: msal, azure-identity,
\* otherwise undefined (an empty header, which callApi does not attach).
GetAuthorizationHeader(cfg, clients, creds, construct) ==
  IF cfg.authType = "msal" THEN GetMsalAuthHeader(cfg, clients, creds)
  ELSE IF cfg.authType = "azure-identity"
    THEN GetAzureIdentityAuthHeader(cfg, clients, creds, construct)
  ELSE AuthStarted(AuthReturned(cfg, <<>>, NoAuthLog), clients, creds)

\* Mutant: the header is resolved in the first pass of the loop only.
AuthRequired_FirstPassOnly(cfg, pass) == cfg.authType # "none" /\ pass = 0

\* if (config.authType !== 'none'), in each pass of the retry loop
AuthRequired(cfg, pass) == cfg.authType # "none"

\* The Authorization header of the request an attempt hands to axios, given
\* the header the resolution returned (not asked for when authType is none).
AdvancedAuthorization(cfg, header) ==
  IF cfg.authType # "none" /\ header # <<>> THEN Some(header) ELSE cfg.callerAuth

\* ------------------------------- token-manager: getAccessToken
MinuteMs == 60 * 1000
\* The 5 minute safety buffer taken off a token's expiry.
SafetyBufferMs == 5 * 60 * 1000

\* Tokens the interactive identity provider hands out: "A", "B".
TokA == <<65>>
TokB == <<66>>
\* Lifetimes, in minutes, of the tokens it hands out.
Lifetimes == {5, 6}

\* Outcomes of one acquisition (acquireTokenInteractive, credential.getToken):
\* a token with its expiry, a token without one (expiresOn is null), no
\* response, a response without token, or an exception.
AcqOk(tok, life) == [kind |-> "ok", token |-> tok, hasExpiry |-> TRUE, life |-> life]
AcqNoExpiry(tok) == [kind |-> "ok", token |-> tok, hasExpiry |-> FALSE, life |-> 0]
AcqFail(k) == [kind |-> k, token |-> <<>>, hasExpiry |-> FALSE, life |-> 0]
AcqFailures == {AcqFail(k) : k \in {"null", "noToken", "throws"}}
\* AccessToken.expiresOnTimestamp is always a number.
GlobalAcqOutcomes ==
  {AcqOk(t, l) : t \in {TokA, TokB}, l \in Lifetimes} \cup AcqFailures
\* AuthenticationResult.expiresOn may be null.
KeyedAcqOutcomes == GlobalAcqOutcomes \cup {AcqNoExpiry(t) : t \in {TokA, TokB}}

\* The outcomes drawn for the acquisitions made while callApi is under test:
\* the call's own, and those of the other call in flight.
CallAcqOutcomes(p) ==
  IF p = 1 THEN {AcqOk(TokA, 6), AcqNoExpiry(TokA)} \cup AcqFailures
  ELSE {AcqOk(TokB, 6), AcqFail("throws")}

\* A cache entry; nan: expiresAt is NaN (computed from a missing expiresOn).
Entry(tok, isNan, at) == [token |-> tok, nan |-> isNan, expiresAt |-> at]

\* tokenResponse.expiresOn of a token issued at time t.
TokenExpiry(acq, t) == t + acq.life * MinuteMs

\* Mutant: the safety buffer is not taken off.
ExpiresAt_NoBuffer(acq, t) == TokenExpiry(acq, t)

\* expirationTime - (5 * 60 * 1000), the token having been issued at time t.
ExpiresAt(acq, t) == TokenExpiry(acq, t) - SafetyBufferMs

\* The entry stored for a successful acquisition that completed at time t.
EntryOf(acq, t) ==
  IF acq.hasExpiry THEN Entry(acq.token, FALSE, ExpiresAt(acq, t))
  ELSE Entry(acq.token, TRUE, 0)

\* cachedEntry.expiresAt > now (false for NaN)
EntryValid(e, t) == ~e.nan /\ e.expiresAt > t

\* clientId || process.env.AZURE_CLIENT_ID || ''
ResolvedClientId(c, ev) == IF c # "" THEN c ELSE ev.clientId
\* tenantId || process.env.AZURE_TENANT_ID || 'common'
ResolvedTenantId(t, ev) ==
  IF t # "" THEN t ELSE IF ev.tenantId # "" THEN ev.tenantId ELSE "common"

\* createCacheKey: `${clientId}|${tenantId}`
CreateCacheKey(c, t) == c \o "|" \o t

\* The state of the two token managers: the keyed one (README.md 197-282)
\* holds tokenCache, the global one (README.md 155-196) cachedToken and
\* tokenExpiresAt, kept here as one entry under the key "".
GlobalKey == ""

\* The key a call reads and writes.
TmKey(impl, c, t, ev) ==
  IF impl = "global" THEN GlobalKey
  ELSE CreateCacheKey(ResolvedClientId(c, ev), ResolvedTenantId(t, ev))

\* The keyed manager refuses a call without client id before it looks up.
TmRefuses(impl, c, ev) == impl = "keyed" /\ ResolvedClientId(c, ev) = ""

\* Mutant: the cache is never consulted.
TmHit_Never(cache, key, t) == FALSE

\* The cache check at the head of getAccessToken.
TmHit(cache, key, t) == key \in DOMAIN cache /\ EntryValid(cache[key], t)

\* Mutant: an entry already cached is kept (the first writer wins).
TmStore_FirstWins(cache, key, acq, t) ==
  IF key \in DOMAIN cache THEN cache ELSE (key :> EntryOf(acq, t)) @@ cache

\* tokenCache.set(cacheKey, ...) / cachedToken = ...; tokenExpiresAt = ...
TmStore(cache, key, acq, t) ==
  (key :> EntryOf(acq, t)) @@ cache

\* Mutant: a failed acquisition drops the entry of its key.
TmAfterFailure_Evicts(cache, key) ==
  [k \in DOMAIN cache \ {key} |-> cache[k]]

\* The cache after an acquisition that failed: the throw comes before the
\* store, and the catch block writes nothing.
TmAfterFailure(cache, key) == cache

\* The message of the Error a failed acquisition is wrapped in.
TmFailure(impl, acq) ==
  IF impl = "global" THEN "Failed to acquire Azure DevOps access token"
  ELSE "Failed to acquire access token: "
         \o (IF acq.kind = "throws" THEN "boom"
             ELSE "Failed to acquire token with native broker")

\* The client id the identity provider is set up with: the keyed manager
\* resolves it against the environment, the global one passes it on as given.
TmClientId(impl, c, ev) == IF impl = "global" THEN c ELSE ResolvedClientId(c, ev)
\* tenantId || "common" in the global manager, the resolved one in the keyed.
TmTenantId(impl, tn, ev) ==
  IF impl = "global" THEN (IF tn # "" THEN tn ELSE "common")
  ELSE ResolvedTenantId(tn, ev)

\* The (clientId, tenantId) the identity provider is set up with.
AcquiredFor(impl, c, tn, ev) == <<TmClientId(impl, c, ev), TmTenantId(impl, tn, ev)>>

\* scopes || [`${clientId}/.default`], with the client id the provider is
\* set up with.
TmScopes(impl, scopes, c, ev) ==
  IF scopes.some THEN scopes.v ELSE <<TmClientId(impl, c, ev) \o "/.default">>

\* ---------------------------------------------------------------- state
VARIABLES
  pc,               \* where the callApi call in progress stands: "idle",
                    \* "attempt" (head of the retry loop), "await" (axios
                    \* pending), "backoff" (setTimeout pending), "done"
  svc,              \* the service module under test: "simple", "interactive"
                    \* or "advanced" (the modules share no state)
  config,           \* its request descriptor, as the caller holds it
  submitted,        \* history: the descriptor as it was when submitted
  maxRetries,       \* callApi's local maxRetries
  retryCount,       \* callApi's local retryCount
  lastError,        \* callApi's local lastError
  delay,            \* the delay of the pending or last backoff, in ms
  waited,           \* the time since the pending backoff timer was set, in ms
  result,           \* what the call completed with
  calls,            \* history: axios invocations of the call
  resolutions,      \* history: authorization header resolutions of the call
  outAuth,          \* history: Authorization header of the last request issued
  lastOutcome,      \* history: what the last axios invocation ended with
  stub,             \* the stub standing in for axios during the call
  authFailed,       \* history: a header resolution of the call threw
  lastAuth,         \* history: what the last header resolution did
  msalConfigs,      \* ApiService.msalConfigs: keys of the MSAL clients
  msalAccounts,     \* keys of the MSAL clients holding a signed-in account
  azureCredentials, \* ApiService.azureCredentials: credential kind by key
  authCalls,        \* the getAuthorizationHeader call of each caller: where
                    \* it stands, its descriptor and what it completed with
  tmImpl,           \* the token manager in use: "global" or "keyed"
  env,              \* process.env: AZURE_CLIENT_ID, AZURE_TENANT_ID
  tokenCache,       \* the token manager's cache: entry by key
  storedFor,        \* history: by cache key, the (clientId, tenantId) the
                    \* token now cached under it was acquired for
  tmCalls,          \* the getAccessToken call of each caller: where it
                    \* stands, its arguments and what it completed with
  now,              \* Date.now()
  fnArgs,           \* the arguments of the pure function under test
  fnResult,         \* what it returned or threw, once it has been applied
  schemaCache,      \* OpenApiService.cache: parsed schema by key
  schemaCalls,      \* the fetchSchema call of each caller: where it stands,
                    \* its url and what it completed with
  fetchLog          \* history: the documents fetched so far (a count) and
                    \* the urls fetchSchema has succeeded for

callVars ==
  <<pc, config, submitted, maxRetries, retryCount, lastError, delay, waited, result, calls,
    resolutions, outAuth, lastOutcome, stub, authFailed, lastAuth>>
advVars == <<msalConfigs, msalAccounts, azureCredentials, authCalls>>
tmVars == <<tmImpl, env, tokenCache, storedFor, tmCalls>>
fnVars == <<fnArgs, fnResult>>
oaVars == <<schemaCache, schemaCalls, fetchLog>>
vars == <<svc, callVars, advVars, tmVars, now, fnVars, oaVars>>

\* The callers of one function that may be in flight at once.
Procs == {1, 2}

\* No fetchSchema call in progress, nothing cached.
SchemaIdle == [pc |-> "idle", url |-> "", ok |-> FALSE]
NoFetches == [count |-> 0, succeeded |-> {}]
OaIdle ==
  /\ schemaCache = <<>> /\ schemaCalls = [p \in Procs |-> SchemaIdle]
  /\ fetchLog = NoFetches

\* No pure function is under test.
NoArgs == [fn |-> "none"]
NotApplied == [done |-> FALSE]
FnIdle == fnArgs = NoArgs /\ fnResult = NotApplied

\* process.env without and with AZURE_CLIENT_ID / AZURE_TENANT_ID.
Envs == {[clientId |-> "", tenantId |-> ""], [clientId |-> "c1", tenantId |-> "t1"]}

\* The (clientId, tenantId) arguments they pass ("": undefined).
TmArgs == {<<"c1", "t1">>, <<"c1", "">>, <<"", "">>}

\* A caller's call: pc is "idle", "acquiring" (awaiting the identity
\* provider) or "done"; acquired counts the acquisitions the call made.
\* expiry is the expiresOn of the token the call acquired, when it had one.
TmCall(p, c, tn, ok, tok, m, n) ==
  [pc |-> p, clientId |-> c, tenantId |-> tn, ok |-> ok, token |-> tok,
   msg |-> m, acquired |-> n, expiry |-> NoNum]
TmIdle == TmCall("idle", "", "", FALSE, <<>>, "", 0)

\* getAccessToken(c, tn) up to its first await, at time t: the client id
\* check, the cache check, and the start of the acquisition.
GetAccessToken(impl, c, tn, ev, cache, t) ==
  LET key == TmKey(impl, c, tn, ev)
  IN  IF TmRefuses(impl, c, ev)
        THEN TmCall("done", c, tn, FALSE, <<>>,
               "Client ID is required. Provide it as a parameter or set AZURE_CLIENT_ID environment variable.",
               0)
      ELSE IF TmHit(cache, key, t)
        THEN TmCall("done", c, tn, TRUE, cache[key].token, "", 0)
      ELSE TmCall("acquiring", c, tn, FALSE, <<>>, "", 1)

\* No call in progress: the locals and the history of a call at their start.
CallIdle ==
  /\ pc = "idle" /\ config = BaseConfig /\ submitted = BaseConfig
  /\ maxRetries = 0 /\ retryCount = 0 /\ lastError = NoError /\ delay = 0
  /\ waited = 0
  /\ result = NoResult /\ calls = 0 /\ resolutions = 0 /\ outAuth = None
  /\ lastOutcome = NoOutcome /\ stub = <<>> /\ authFailed = FALSE
  /\ lastAuth = NoAuthLog

\* The token manager api-service.ts (1-119) imports is either of the two; the
\* other services import none.
Init ==
  /\ svc \in {"simple", "interactive", "advanced"}
  /\ CallIdle
  /\ msalConfigs = {} /\ msalAccounts = {} /\ azureCredentials = <<>>
  /\ authCalls = [p \in Procs |-> AuthIdle]
  /\ tmImpl \in IF svc = "interactive" THEN {"global", "keyed"} ELSE {"keyed"}
  /\ env \in IF svc = "interactive" THEN Envs ELSE {[clientId |-> "", tenantId |-> ""]}
  /\ tokenCache = <<>>
  /\ storedFor = <<>>
  /\ tmCalls = [p \in Procs |-> TmIdle]
  /\ now = 0
  /\ FnIdle
  /\ OaIdle

\* Time passes between calls and while a call awaits its token. (Date.now()
\* is read by the token manager only, which api-service.ts (1-119) alone
\* calls.)
Tick ==
  /\ svc = "interactive"
  /\ pc \in {"idle", "auth"} /\ now < MaxTicks * MinuteMs
  /\ now' = now + MinuteMs
  /\ UNCHANGED <<svc, fnVars, oaVars, callVars, advVars, tmVars>>

\* axios(...) is invoked with the given Authorization header.
Issue(auth) ==
  /\ calls' = calls + 1
  /\ outAuth' = auth
  /\ pc' = "await"

\* simpleApiService.ts callApi, up to `await axios(...)`.
SimpleCall(cfg) ==
  /\ pc = "idle" /\ svc = "simple"
  /\ submitted' = cfg
  /\ config' = DescriptorAfter(cfg, CopyHeaders(cfg), SimpleAuthorization(cfg))
  /\ Issue(SimpleAuthorization(cfg))
  /\ UNCHANGED <<svc, fnVars, oaVars, waited, maxRetries, retryCount, lastError, delay, result,
                 resolutions, lastOutcome, stub, authFailed, lastAuth, advVars,
                 tmVars, now>>

\* getAccessToken(c, tn) up to its first await: the client id check, the
\* cache check, and the start of the acquisition.
TmStart(p, c, tn) ==
  /\ tmCalls[p].pc = "idle"
  /\ tmCalls' = [tmCalls EXCEPT ![p] =
                   GetAccessToken(tmImpl, c, tn, env, tokenCache, now)]
  /\ UNCHANGED <<svc, fnVars, oaVars, callVars, advVars, tmImpl, env, tokenCache, storedFor, now>>

\* The identity provider answers: the token is stored and returned, or the
\* failure is wrapped and thrown.
TmAcquired(p, acq) ==
  /\ tmCalls[p].pc = "acquiring"
  /\ LET c == tmCalls[p].clientId
         tn == tmCalls[p].tenantId
         key == TmKey(tmImpl, c, tn, env)
     IN  IF acq.kind = "ok"
           THEN /\ tokenCache' = TmStore(tokenCache, key, acq, now)
                /\ storedFor' = (key :> AcquiredFor(tmImpl, c, tn, env)) @@ storedFor
                /\ tmCalls' = [tmCalls EXCEPT ![p] =
                                 [TmCall("done", c, tn, TRUE, acq.token, "", 1)
                                    EXCEPT !.expiry =
                                      IF acq.hasExpiry
                                        THEN Num(TokenExpiry(acq, now))
                                        ELSE NoNum]]
           ELSE /\ tmCalls' = [tmCalls EXCEPT ![p] =
                                 TmCall("done", c, tn, FALSE, <<>>,
                                        TmFailure(tmImpl, acq), 1)]
                /\ tokenCache' = TmAfterFailure(tokenCache, key)
                /\ UNCHANGED storedFor
  /\ UNCHANGED <<svc, fnVars, oaVars, callVars, advVars, tmImpl, env, now>>

\* The caller has its token or its error; it may call again.
TmReturn(p) ==
  /\ tmCalls[p].pc = "done"
  /\ tmCalls' = [tmCalls EXCEPT ![p] = TmIdle]
  /\ UNCHANGED <<svc, fnVars, oaVars, callVars, advVars, tmImpl, env, tokenCache, storedFor, now>>

\* The outcomes the identity provider of the manager in use can give.
TmAcqOutcomes == IF tmImpl = "global" THEN GlobalAcqOutcomes ELSE KeyedAcqOutcomes

\* What a getAccessToken call asks of the identity provider: nothing when it
\* ends without an acquisition.
TmAsked(call, scopes) ==
  [NoAuthLog EXCEPT
     !.getToken = call.acquired,
     !.scopes = IF call.acquired = 0 THEN <<>>
                ELSE TmScopes(tmImpl, scopes, call.clientId, env)]

\* api-service.ts (1-119) callApi, up to `await getAccessToken(...)` when
\* authType is interactive (the call is caller 1 of the token manager), and
\* otherwise up to `await axios(...)`.
InteractiveCall(cfg) ==
  /\ pc = "idle" /\ svc = "interactive"
  /\ submitted' = cfg
  /\ IF cfg.authType = "interactive"
       THEN /\ tmCalls[1].pc = "idle"
            /\ tmCalls' = [tmCalls EXCEPT ![1] =
                             GetAccessToken(tmImpl, cfg.clientId, cfg.tenantId,
                                            env, tokenCache, now)]
            /\ resolutions' = 1
            /\ lastAuth' = TmAsked(tmCalls'[1], cfg.scopes)
            /\ config' = cfg
            /\ pc' = "auth"
            /\ UNCHANGED <<calls, outAuth>>
       ELSE /\ Issue(SimpleAuthorization(cfg))
            /\ config' = DescriptorAfter(cfg, CopyHeaders(cfg), SimpleAuthorization(cfg))
            /\ UNCHANGED <<tmCalls, resolutions, lastAuth>>
  /\ UNCHANGED <<svc, fnVars, oaVars, waited, maxRetries, retryCount, lastError, delay, lastOutcome,
                 stub, advVars, tmImpl, env, tokenCache, storedFor, now, authFailed, result>>

\* getAccessToken has returned or thrown: the token goes into the
\* Authorization header and the request is issued, or the authentication
\* error is returned.
InteractiveResume ==
  /\ pc = "auth" /\ svc = "interactive" /\ tmCalls[1].pc = "done"
  /\ authFailed' = ~tmCalls[1].ok
  /\ IF tmCalls[1].ok
       THEN /\ Issue(Some(BearerHeader(tmCalls[1].token)))
            /\ config' = DescriptorAfter(config, CopyHeaders(config),
                                         Some(BearerHeader(tmCalls[1].token)))
            /\ UNCHANGED result
       ELSE /\ result' = AuthenticationError(tmCalls[1].msg)
            /\ pc' = "done"
            /\ UNCHANGED <<config, calls, outAuth>>
  /\ tmCalls' = [tmCalls EXCEPT ![1] = TmIdle]
  /\ UNCHANGED <<svc, fnVars, oaVars, waited, submitted, maxRetries, retryCount, lastError, delay,
                 lastOutcome, stub, advVars, tmImpl, env, tokenCache, storedFor, now,
                 resolutions, lastAuth>>

\* Another caller of getAccessToken (a second callApi call in flight) starts
\* its call.
OtherTokenCall(c, tn) ==
  /\ svc = "interactive"
  /\ TmStart(2, c, tn)

\* The axios call of simpleApiService.ts or api-service.ts (1-119) ends.
SimpleResponse(o) ==
  /\ pc = "await" /\ svc \in {"simple", "interactive"}
  /\ lastOutcome' = o
  /\ result' = SimpleRespond(o)
  /\ pc' = "done"
  /\ UNCHANGED <<svc, fnVars, oaVars, waited, config, submitted, maxRetries, retryCount,
                 lastError, delay, calls,
                 resolutions, outAuth, stub, authFailed, lastAuth, advVars,
                 tmVars, now>>

\* api-service.ts (121-470) callApi, up to the head of the retry loop; a
\* negative maxRetries skips the loop.
AdvancedCall(cfg, st) ==
  /\ pc = "idle" /\ svc = "advanced"
  /\ config' = cfg /\ submitted' = cfg /\ stub' = st
  /\ maxRetries' = MaxRetriesOf(cfg)
  /\ retryCount' = 0
  /\ lastError' = NoError
  /\ IF 0 <= MaxRetriesOf(cfg)
       THEN pc' = "attempt" /\ UNCHANGED result
       ELSE pc' = "done" /\ result' = ErrorResponse(NoError)
  /\ UNCHANGED <<svc, fnVars, oaVars, waited, delay, calls, resolutions, outAuth, lastOutcome,
                 authFailed, lastAuth, advVars, tmVars, now>>

\* getAuthorizationHeader is called by caller p with a descriptor: the part
\* up to its first await.
AuthStart(p, cfg, construct) ==
  /\ authCalls[p].pc = "idle"
  /\ LET r == GetAuthorizationHeader(cfg, msalConfigs, azureCredentials, construct)
     IN  /\ authCalls' = [authCalls EXCEPT ![p] = r.call]
         /\ msalConfigs' = r.msalConfigs
         /\ azureCredentials' = r.azureCredentials
  /\ UNCHANGED msalAccounts

\* One pass of the loop body up to `await this.getAuthorizationHeader(...)`
\* (the call is caller 1 of it), or, when authType is none, up to
\* `await axios(...)`.
AdvancedAttempt(construct) ==
  /\ pc = "attempt"
  /\ IF AuthRequired(config, retryCount)
       THEN /\ AuthStart(1, config, construct)
            /\ resolutions' = resolutions + 1
            /\ pc' = "auth"
            /\ UNCHANGED <<calls, outAuth>>
       ELSE /\ Issue(AdvancedAuthorization(config, <<>>))
            /\ UNCHANGED <<advVars, resolutions>>
  /\ UNCHANGED <<svc, fnVars, oaVars, waited, config, submitted, maxRetries, retryCount, lastError,
                 delay, lastOutcome, stub, tmVars, now, lastAuth, authFailed, result>>

\* getAllAccounts answers caller p.
AuthAccounts(p) ==
  /\ authCalls[p].pc = "accounts"
  /\ authCalls' = [authCalls EXCEPT ![p] = MsalAfterAccounts(@, msalAccounts)]
  /\ UNCHANGED <<svc, fnVars, oaVars, callVars, tmVars, now,
                 msalConfigs, msalAccounts, azureCredentials>>

\* acquireTokenSilent ends for caller p.
AuthSilent(p, outcome) ==
  /\ authCalls[p].pc = "silent"
  /\ authCalls' = [authCalls EXCEPT ![p] = MsalAfterSilent(@, outcome)]
  /\ UNCHANGED <<svc, fnVars, oaVars, callVars, tmVars, now,
                 msalConfigs, msalAccounts, azureCredentials>>

\* acquireTokenByDeviceCode ends for caller p.
AuthDevice(p, outcome) ==
  /\ authCalls[p].pc = "device"
  /\ authCalls' = [authCalls EXCEPT ![p] = MsalAfterDevice(@, outcome)]
  /\ msalAccounts' = AccountsAfterDevice(msalAccounts, authCalls[p], outcome)
  /\ UNCHANGED <<svc, fnVars, oaVars, callVars, tmVars, now,
                 msalConfigs, azureCredentials>>

\* credential.getToken ends for caller p.
AuthGetToken(p, outcome) ==
  /\ authCalls[p].pc = "getToken"
  /\ authCalls' = [authCalls EXCEPT ![p] = AzureAfterGetToken(@, outcome)]
  /\ UNCHANGED <<svc, fnVars, oaVars, callVars, tmVars, now,
                 msalConfigs, msalAccounts, azureCredentials>>

\* getAuthorizationHeader has returned or thrown: the request is issued with
\* the header, or the authentication error is returned.
AdvancedResume ==
  /\ pc = "auth" /\ svc = "advanced" /\ authCalls[1].pc = "done"
  /\ lastAuth' = authCalls[1].log
  /\ authFailed' = ~authCalls[1].ok
  /\ IF authCalls[1].ok
       THEN /\ Issue(AdvancedAuthorization(config, authCalls[1].header))
            /\ config' = DescriptorAfter(config, CopyHeaders(config),
                             AdvancedAuthorization(config, authCalls[1].header))
            /\ UNCHANGED result
       ELSE /\ result' = AuthenticationError(authCalls[1].msg)
            /\ pc' = "done"
            /\ UNCHANGED <<config, calls, outAuth>>
  /\ authCalls' = [authCalls EXCEPT ![1] = AuthIdle]
  /\ UNCHANGED <<svc, fnVars, oaVars, waited, submitted, maxRetries, retryCount, lastError, delay,
                 lastOutcome, stub, tmVars, now, resolutions,
                 msalConfigs, msalAccounts, azureCredentials>>

\* The descriptors that ask for a header resolution, as the call under test
\* and the other callApi call in flight give them.
AuthConfigs ==
  {cfg \in AdvancedConfigs :
     /\ cfg.authType \in {"msal", "azure-identity"}
     /\ cfg.callerAuth = None}

\* Another callApi call in flight starts to resolve its header.
OtherAuthCall(cfg, construct) ==
  /\ svc = "advanced"
  /\ AuthStart(2, cfg, construct)
  /\ UNCHANGED <<svc, fnVars, oaVars, callVars, tmVars, now>>

\* The other call has its header or its error.
OtherAuthReturn ==
  /\ authCalls[2].pc = "done"
  /\ authCalls' = [authCalls EXCEPT ![2] = AuthIdle]
  /\ UNCHANGED <<svc, fnVars, oaVars, callVars, tmVars, now,
                 msalConfigs, msalAccounts, azureCredentials>>

\* The axios call of an attempt ends: a response is returned as an envelope; a
\* rejection is retried when transient and within budget, and otherwise ends
\* the loop with the envelope built from lastError.
AdvancedResponse_(o, jitter) ==
  /\ pc = "await" /\ svc = "advanced"
  /\ StubAllows(stub, calls, o)
  /\ lastOutcome' = o
  /\ IF o.resolved
       THEN /\ result' = AdvancedResponse(o)
            /\ pc' = "done"
            /\ UNCHANGED <<lastError, delay, waited>>
       ELSE /\ lastError' = o.err
            /\ IF IsTransientError(o.err) /\ retryCount < maxRetries
                 THEN /\ delay' = BackoffDelay(retryCount, jitter)
                      /\ waited' = 0
                      /\ pc' = "backoff"
                      /\ UNCHANGED result
                 ELSE /\ result' = ErrorResponse(o.err)
                      /\ pc' = "done"
                      /\ UNCHANGED <<delay, waited>>
  /\ UNCHANGED <<svc, fnVars, oaVars, config, submitted, maxRetries, retryCount, calls,
                 resolutions,
                 outAuth, stub, authFailed, lastAuth, advVars, tmVars, now>>

\* Time passes while the call awaits the timer of setTimeout(resolve, delay).
TimerWait ==
  /\ pc = "backoff" /\ ~TimerDue(waited, delay)
  /\ waited' = waited + TimerQuantum
  /\ UNCHANGED <<svc, fnVars, oaVars, pc, config, submitted, maxRetries, retryCount,
                 lastError,
                 delay, result, calls, resolutions, outAuth, lastOutcome, stub,
                 authFailed, lastAuth, advVars, tmVars, now>>

\* The backoff timer fires: retryCount++; continue. (delay is local to the
\* block that waited.)
Backoff ==
  /\ pc = "backoff" /\ TimerDue(waited, delay)
  /\ retryCount' = retryCount + 1
  /\ delay' = 0
  /\ waited' = 0
  /\ pc' = "attempt"
  /\ UNCHANGED <<svc, fnVars, oaVars, config, submitted, maxRetries, lastError, result,
                 calls,
                 resolutions, outAuth, lastOutcome, stub, authFailed,
                 lastAuth, advVars, tmVars, now>>

\* The caller has its result; the next call may start.
Return ==
  /\ pc = "done"
  /\ pc' = "idle" /\ config' = BaseConfig /\ submitted' = BaseConfig
  /\ maxRetries' = 0 /\ retryCount' = 0 /\ lastError' = NoError /\ delay' = 0
  /\ waited' = 0
  /\ result' = NoResult /\ calls' = 0 /\ resolutions' = 0 /\ outAuth' = None
  /\ lastOutcome' = NoOutcome /\ stub' = <<>> /\ authFailed' = FALSE
  /\ lastAuth' = NoAuthLog
  /\ UNCHANGED <<svc, fnVars, oaVars, advVars, tmVars, now>>

\* One callApi call at a time, of any of the three services.
Next ==
  \/ \E cfg \in SimpleConfigs : SimpleCall(cfg)
  \/ \E cfg \in InteractiveConfigs : InteractiveCall(cfg)
  \/ \E acq \in CallAcqOutcomes(1) \cap TmAcqOutcomes : TmAcquired(1, acq)
  \/ InteractiveResume
  \/ Tick
  \/ \E o \in SimpleOutcomes : SimpleResponse(o)
  \/ \E cfg \in AdvancedConfigs, st \in Stubs : AdvancedCall(cfg, st)
  \/ \E construct \in ConstructOutcomesFor(config) : AdvancedAttempt(construct)
  \/ AuthAccounts(1)
  \/ \E outcome \in SilentOutcomes : AuthSilent(1, outcome)
  \/ \E outcome \in DeviceOutcomes : AuthDevice(1, outcome)
  \/ \E outcome \in GetTokenOutcomes : AuthGetToken(1, outcome)
  \/ AdvancedResume
  \/ \E o \in AdvancedOutcomes, jitter \in Jitters : AdvancedResponse_(o, jitter)
  \/ TimerWait
  \/ Backoff
  \/ Return

Spec == Init /\ [][Next]_vars

\* ------------------------------------ two calls that authenticate in flight
\* The call under test and another call of the same service, both asking for
\* a token or a header; the other call may start and go on at any time.
InitAuth == Init /\ svc \in {"interactive", "advanced"}

\* The descriptors and the transport outcomes drawn for the call under test.
AuthInteractiveConfigs ==
  {cfg \in InteractiveConfigs :
     cfg.authType = "interactive" /\ cfg.callerAuth = None /\ cfg.token = None}
AuthSimpleOutcomes == {Resolve(200), Reject(AxiosStatus(500))}
AuthAdvancedOutcomes ==
  {Resolve(200), Reject(AxiosStatus(503)), Reject(JsError("boom"))}

NextAuth ==
  \/ \E cfg \in AuthInteractiveConfigs : InteractiveCall(cfg)
  \/ \E a \in TmArgs : OtherTokenCall(a[1], a[2])
  \/ \E p \in Procs :
        \E acq \in CallAcqOutcomes(p) \cap TmAcqOutcomes : TmAcquired(p, acq)
  \/ InteractiveResume
  \/ TmReturn(2)
  \/ Tick
  \/ \E o \in AuthSimpleOutcomes : SimpleResponse(o)
  \/ \E cfg \in AuthConfigs : AdvancedCall(cfg, <<>>)
  \/ \E construct \in ConstructOutcomesFor(config) : AdvancedAttempt(construct)
  \/ \E cfg \in AuthConfigs :
        \E construct \in ConstructOutcomesFor(cfg) : OtherAuthCall(cfg, construct)
  \/ \E p \in Procs : AuthAccounts(p)
  \/ \E p \in Procs, outcome \in SilentOutcomes : AuthSilent(p, outcome)
  \/ \E p \in Procs, outcome \in DeviceOutcomes : AuthDevice(p, outcome)
  \/ \E p \in Procs, outcome \in GetTokenOutcomes : AuthGetToken(p, outcome)
  \/ AdvancedResume
  \/ OtherAuthReturn
  \/ \E o \in AuthAdvancedOutcomes : AdvancedResponse_(o, 0)
  \/ TimerWait
  \/ Backoff
  \/ Return

SpecAuth == InitAuth /\ [][NextAuth]_vars

\* ------------------------------------------------------------ buildUrl
\* Strings are sequences of one-character strings.
Slash == <<"/">>

RECURSIVE BaseUrl_StripAll(_)
\* Mutant: every trailing slash is removed.
BaseUrl_StripAll(endpoint) ==
  IF Len(endpoint) > 0 /\ endpoint[Len(endpoint)] = "/"
    THEN BaseUrl_StripAll(SubSeq(endpoint, 1, Len(endpoint) - 1))
  ELSE endpoint

\* endpoint.endsWith('/') ? endpoint.slice(0, -1) : endpoint
BaseUrl(endpoint) ==
  IF Len(endpoint) > 0 /\ endpoint[Len(endpoint)] = "/"
    THEN SubSeq(endpoint, 1, Len(endpoint) - 1)
  ELSE endpoint

\* path ? (path.startsWith('/') ? path : `/${path}`) : ''
FormattedPath(path) ==
  IF ~Truthy(path) THEN <<>>
  ELSE IF path.v[1] = "/" THEN path.v
  ELSE Slash \o path.v

\* The printable ASCII characters, from code 32 (space) to code 126 (the
\* place of code 96, the grave accent, is left empty).
Printable ==
  <<" ", "!", "\"", "#", "$", "%", "&", "'", "(", ")", "*", "+",
    ",", "-", ".", "/", "0", "1", "2", "3", "4", "5", "6", "7",
    "8", "9", ":", ";", "<", "=", ">", "?", "@", "A", "B", "C",
    "D", "E", "F", "G", "H", "I", "J", "K", "L", "M", "N", "O",
    "P", "Q", "R", "S", "T", "U", "V", "W", "X", "Y", "Z", "[",
    "\\", "]", "^", "_", "", "a", "b", "c", "d", "e", "f", "g",
    "h", "i", "j", "k", "l", "m", "n", "o", "p", "q", "r", "s",
    "t", "u", "v", "w", "x", "y", "z", "{", "|", "}", "~">>

\* The code of a character: tab, line feed, or a printable character.
CharCode(c) ==
  IF c = "\t" THEN 9
  ELSE IF c = "\n" THEN 10
  ELSE 31 + (CHOOSE i \in 1..Len(Printable) : Printable[i] = c)

HexDigits ==
  <<"0", "1", "2", "3", "4", "5", "6", "7", "8", "9", "A", "B", "C", "D", "E", "F">>

\* %XX of one byte.
PercentEncode(byte) ==
  <<"%", HexDigits[(byte \div 16) + 1], HexDigits[(byte % 16) + 1]>>

\* The characters the application/x-www-form-urlencoded serialiser leaves as
\* they are: ASCII letters and digits, "*", "-", "." and "_".
FormSafe(n) ==
  \/ n \in 48..57 \/ n \in 65..90 \/ n \in 97..122
  \/ n \in {42, 45, 46, 95}

\* URLSearchParams serialisation of one character: a safe character stays,
\* a space becomes "+", any other is percent-encoded.
FormEncodeChar(c) ==
  IF c = " " THEN <<"+">>
  ELSE IF FormSafe(CharCode(c)) THEN <<c>>
  ELSE PercentEncode(CharCode(c))

RECURSIVE FormEncode(_)
FormEncode(str) ==
  IF str = <<>> THEN <<>> ELSE FormEncodeChar(Head(str)) \o FormEncode(Tail(str))

RECURSIVE ParamsToString(_)
\* params.toString(): key=value pairs in insertion order, joined by "&".
ParamsToString(pairs) ==
  IF pairs = <<>> THEN <<>>
  ELSE FormEncode(pairs[1][1]) \o <<"=">> \o FormEncode(pairs[1][2])
         \o (IF Len(pairs) > 1 THEN <<"&">> ELSE <<>>)
         \o ParamsToString(Tail(pairs))

\* queryParams && Object.keys(queryParams).length > 0 ? `?${params}` : ''
QueryString(queryParams) ==
  IF queryParams.some /\ queryParams.v # <<>>
    THEN <<"?">> \o ParamsToString(queryParams.v)
  ELSE <<>>

\* `${baseUrl}${formattedPath}${queryString}`
BuildUrl(endpoint, path, queryParams) ==
  BaseUrl(endpoint) \o FormattedPath(path) \o QueryString(queryParams)

\* The longest endpoint and path drawn.
MaxUrlLen == 3

RECURSIVE StringsUpTo(_, _)
\* The strings over an alphabet, up to a length.
StringsUpTo(alphabet, n) ==
  IF n = 0 THEN {<<>>}
  ELSE LET shorter == StringsUpTo(alphabet, n - 1)
       IN  shorter \cup {Append(w, c) : w \in shorter, c \in alphabet}

Endpoints == StringsUpTo({"h", "/"}, MaxUrlLen)
Paths == {None} \cup {Some(w) : w \in StringsUpTo({"p", "/"}, MaxUrlLen)}
QueryParamSets ==
  {None, Some(<<>>), Some(<<<<<<"k">>, <<"a", " ">>>>>>),
   Some(<<<<<<"k">>, <<"/">>>>, <<<<"j">>, <<>>>>>>),
   Some(<<<<<<"a", "&">>, <<"=", "~", "+">>>>, <<<<"%">>, <<"\t", "*", "0">>>>>>)}

UrlArgs(e, p, q) == [fn |-> "buildUrl", endpoint |-> e, path |-> p, queryParams |-> q]
Applied(v) == [done |-> TRUE, threw |-> FALSE, v |-> v]

\* The other modules at rest while a pure function is under test.
RestIdle ==
  /\ svc = "simple"
  /\ CallIdle
  /\ msalConfigs = {} /\ msalAccounts = {} /\ azureCredentials = <<>>
  /\ authCalls = [p \in Procs |-> AuthIdle]
  /\ tmImpl = "keyed"
  /\ env = [clientId |-> "", tenantId |-> ""]
  /\ tokenCache = <<>>
  /\ storedFor = <<>>
  /\ tmCalls = [p \in Procs |-> TmIdle]
  /\ now = 0
  /\ OaIdle

InitUrl ==
  /\ RestIdle
  /\ fnArgs \in {UrlArgs(e, p, q) : e \in Endpoints, p \in Paths, q \in QueryParamSets}
  /\ fnResult = NotApplied

\* buildUrl(endpoint, path, queryParams)
BuildUrlCall ==
  /\ fnArgs.fn = "buildUrl" /\ ~fnResult.done
  /\ fnResult' = Applied(BuildUrl(fnArgs.endpoint, fnArgs.path, fnArgs.queryParams))
  /\ UNCHANGED <<svc, callVars, advVars, tmVars, now, fnArgs, oaVars>>

NextUrl == BuildUrlCall

SpecUrl == InitUrl /\ [][NextUrl]_vars

\* -------------------------------------------------- generateSchemaExample
\* JavaScript values: what generateSchemaExample returns, and enum members.
JsUndefined == [t |-> "undefined"]
JsNull == [t |-> "null"]
JsString(str) == [t |-> "string", s |-> str]
JsNumber(n) == [t |-> "number", n |-> n]
JsBoolean(b) == [t |-> "boolean", b |-> b]
JsObject(fields) == [t |-> "object", fields |-> fields]
JsArray(items) == [t |-> "array", items |-> items]
\* Not a value: a TypeError was thrown.
JsThrown == [t |-> "thrown"]

\* A schema node: null, the boolean schemas, or an object with any of $ref,
\* oneOf, anyOf, allOf, type, properties, items, enum, format ("" and <<>>:
\* absent).
NullNode ==
  [kind |-> "null", ref |-> None, oneOf |-> None, anyOf |-> None, allOf |-> None,
   type |-> "", properties |-> None, items |-> None, enum |-> <<>>, format |-> ""]
TrueNode == [NullNode EXCEPT !.kind = "true"]
FalseNode == [NullNode EXCEPT !.kind = "false"]
EmptyNode == [NullNode EXCEPT !.kind = "object"]
Typed(type) == [EmptyNode EXCEPT !.type = type]

\* Mutant: the guard on a missing schema is left out.
Falsy_Never(schema) == FALSE

\* !schema
Falsy(schema) == schema.kind \in {"null", "false"}

\* typeof example === 'object' && example !== null
IsObjectLike(v) == v.t \in {"object", "array"}

\* The own enumerable properties of a value, as Object.assign reads them.
OwnFields(v) ==
  IF v.t = "object" THEN v.fields
  ELSE IF v.t = "array" THEN [i \in 1..Len(v.items) |-> <<ToString(i - 1), v.items[i]>>]
  ELSE <<>>

\* The property names that are array indices, of those that occur.
IndexNames == <<"0", "1", "2", "3", "4", "5", "6", "7", "8", "9">>
IsIndexName(name) == \E i \in 1..Len(IndexNames) : IndexNames[i] = name
IndexOfName(name) == (CHOOSE i \in 1..Len(IndexNames) : IndexNames[i] = name) - 1

\* Whether the key of field f is enumerated before the new key name: the
\* array indices come first, in ascending order, then the other keys in
\* the order they were added.
EnumeratedBefore(f, name) ==
  IF IsIndexName(name)
    THEN IsIndexName(f[1]) /\ IndexOfName(f[1]) < IndexOfName(name)
  ELSE TRUE

\* result[name] = value: an existing key keeps its place, a new one takes
\* its place in the enumeration order of the object.
SetField(fields, name, value) ==
  IF \E i \in 1..Len(fields) : fields[i][1] = name
    THEN [i \in 1..Len(fields) |-> IF fields[i][1] = name THEN <<name, value>> ELSE fields[i]]
  ELSE SelectSeq(fields, LAMBDA f : EnumeratedBefore(f, name))
         \o <<<<name, value>>>>
         \o SelectSeq(fields, LAMBDA f : ~EnumeratedBefore(f, name))

RECURSIVE AssignFields(_, _)
\* Object.assign(result, example)
AssignFields(fields, more) ==
  IF more = <<>> THEN fields
  ELSE AssignFields(SetField(fields, more[1][1], more[1][2]), Tail(more))

RECURSIVE MergeExamples(_, _)
\* The loop over allOf: the object examples are merged in order.
MergeExamples(examples, fields) ==
  IF examples = <<>> THEN JsObject(fields)
  ELSE IF examples[1].t = "thrown" THEN JsThrown
  ELSE IF IsObjectLike(examples[1])
    THEN MergeExamples(Tail(examples), AssignFields(fields, OwnFields(examples[1])))
  ELSE MergeExamples(Tail(examples), fields)

\* Mutant: the format of a string is not looked at.
FormatExample_NoSentinel(format) == JsString("<string value>")

\* The sentinel of a string format.
FormatExample(format) ==
  CASE format = "date" -> JsString("2023-01-01")
    [] format = "date-time" -> JsString("2023-01-01T00:00:00Z")
    [] format = "email" -> JsString("user@example.com")
    [] format = "uuid" -> JsString("00000000-0000-0000-0000-000000000000")
    [] OTHER -> JsString("<string value>")

\* schema.oneOf || schema.anyOf (an array, even an empty one, is truthy)
Options(schema) == IF schema.oneOf.some THEN schema.oneOf ELSE schema.anyOf

RECURSIVE GenerateSchemaExample(_)
\* generateSchemaExample(schema)
GenerateSchemaExample(schema) ==
  IF Falsy(schema) THEN JsUndefined
  ELSE IF schema.kind = "null" THEN JsThrown
  ELSE IF schema.kind # "object" THEN JsUndefined
  ELSE IF Truthy(schema.ref)
    THEN JsObject(<<<<"$ref", JsString(schema.ref.v)>>>>)
  ELSE IF Options(schema).some /\ Len(Options(schema).v) > 0
    THEN GenerateSchemaExample(Options(schema).v[1])
  ELSE IF schema.allOf.some
    THEN MergeExamples([i \in 1..Len(schema.allOf.v) |->
                          GenerateSchemaExample(schema.allOf.v[i])], <<>>)
  ELSE IF schema.type = "object"
    THEN IF schema.properties.some
           THEN LET examples == [i \in 1..Len(schema.properties.v) |->
                                   <<schema.properties.v[i][1],
                                     GenerateSchemaExample(schema.properties.v[i][2])>>]
                IN  IF \E i \in 1..Len(examples) : examples[i][2].t = "thrown"
                      THEN JsThrown
                    ELSE JsObject(AssignFields(<<>>, examples))
         ELSE JsObject(<<>>)
  ELSE IF schema.type = "array"
    THEN IF schema.items.some /\ ~Falsy(schema.items.v[1])
           THEN LET example == GenerateSchemaExample(schema.items.v[1])
                IN  IF example.t = "thrown" THEN JsThrown ELSE JsArray(<<example>>)
         ELSE JsArray(<<>>)
  ELSE IF schema.type = "string"
    THEN IF Len(schema.enum) > 0 THEN schema.enum[1] ELSE FormatExample(schema.format)
  ELSE IF schema.type \in {"number", "integer"}
    THEN IF Len(schema.enum) > 0 THEN schema.enum[1] ELSE JsNumber(0)
  ELSE IF schema.type = "boolean" THEN JsBoolean(FALSE)
  ELSE IF schema.type = "null" THEN JsNull
  ELSE JsUndefined

\* ------------------------------------------------------ OpenAPI indexing
\* The method keys parseSchema looks up, in its order.
HttpMethods == <<"get", "post", "put", "delete", "patch", "options", "head">>

\* method.toUpperCase() of the keys that occur.
ToUpperCase(key) ==
  CASE key = "get" -> "GET"
    [] key = "post" -> "POST"
    [] key = "put" -> "PUT"
    [] key = "delete" -> "DELETE"
    [] key = "patch" -> "PATCH"
    [] key = "options" -> "OPTIONS"
    [] key = "head" -> "HEAD"
    [] key = "parameters" -> "PARAMETERS"
    [] key = "summary" -> "SUMMARY"
    [] key = "x-null" -> "X-NULL"
    [] OTHER -> key

\* The values under the keys of a path item: an operation object (with or
\* without operationId), a string, an array, null.
\* An operation object may declare parameters and a request body; the array
\* under the key `parameters` of a path item holds parameter objects.
NullValue ==
  [kind |-> "null", operationId |-> None, parameters |-> None,
   requestBody |-> None, items |-> <<>>]
OperationObject(id) == [NullValue EXCEPT !.kind = "object", !.operationId = id]
\* (the items of a string are its characters)
StringValue == [NullValue EXCEPT !.kind = "string", !.items = <<"s">>]
ArrayValue == [NullValue EXCEPT !.kind = "array"]

\* A parameter object: name, in (absent for a $ref), required.
Parameter(name, in, required) == [name |-> name, in |-> in, required |-> required]
ParameterList(params) == [ArrayValue EXCEPT !.items = params]

\* A request body: its content, the media types in document order, each
\* with a schema or none.
MediaType(type, schema) == <<type, [schema |-> schema]>>
RequestBody(content) == [content |-> content]
OperationWith(id, parameters, requestBody) ==
  [OperationObject(id) EXCEPT !.parameters = parameters, !.requestBody = requestBody]

\* if (pathItem[method])
ValueTruthy(v) == v.kind \in {"object", "string", "array"}

\* op.operationId === operationId, operationId being a string
SameOperationId(v, operationId) ==
  v.operationId.some /\ v.operationId.v = operationId

\* The keys a path item is drawn from, and the most keys it holds.
ItemKeys == {"get", "post", "parameters", "summary", "x-null"}
MaxKeys == 2

\* The paths of a document; the operationId of the get operation of each.
PathNames == <<"/a", "/b">>
IdOfGet(path) == IF path = "/a" THEN <<"g", "a">> ELSE <<"g", "b">>

ValueOfKey(key, path) ==
  CASE key = "get" -> OperationObject(Some(IdOfGet(path)))
    [] key = "post" -> OperationObject(None)
    [] key = "parameters" -> ArrayValue
    [] key = "summary" -> StringValue
    [] OTHER -> NullValue

RECURSIVE KeyLists(_)
\* The lists of distinct keys, up to a length.
KeyLists(n) ==
  IF n = 0 THEN {<<>>}
  ELSE LET shorter == KeyLists(n - 1)
       IN  shorter \cup
           UNION {{Append(w, k) :
                     k \in {j \in ItemKeys : \A i \in 1..Len(w) : w[i] # j}} :
                  w \in shorter}

\* Object.entries(pathItem): the keys in document order with their values.
PathItem(keys, path) == [i \in 1..Len(keys) |-> <<keys[i], ValueOfKey(keys[i], path)>>]

Server == [url |-> <<"h">>]
ApiDocument(hasPaths, paths, servers) ==
  [hasPaths |-> hasPaths, paths |-> paths, servers |-> servers]
ApiDocuments ==
  {ApiDocument(FALSE, <<>>, <<Server>>)}
  \cup {ApiDocument(TRUE, <<<<"/a", PathItem(k, "/a")>>>>, sv) :
          k \in KeyLists(MaxKeys), sv \in {<<>>, <<Server>>}}
  \cup {ApiDocument(TRUE, <<<<"/a", PathItem(k, "/a")>>, <<"/b", PathItem(j, "/b")>>>>,
                    <<Server>>) :
          k \in KeyLists(MaxKeys), j \in KeyLists(MaxKeys)}

\* The parameter lists and request bodies of the documents that declare
\* parameters: query, header, path and cookie parameters, a $ref in place of
\* a parameter, the same name at both levels.
OperationParameterLists ==
  {None, Some(<<>>),
   Some(<<Parameter("x", "query", TRUE)>>),
   Some(<<Parameter("y", "query", FALSE), Parameter("x", "header", FALSE)>>),
   Some(<<Parameter("r", "", FALSE)>>),
   Some(<<Parameter("x", "query", FALSE), Parameter("1", "query", TRUE)>>),
   Some(<<Parameter("c", "cookie", TRUE), Parameter("y", "header", TRUE)>>)}
PathParameterLists ==
  {<<>>,
   <<Parameter("x", "query", FALSE)>>,
   <<Parameter("x", "header", TRUE), Parameter("p", "path", TRUE)>>}
RequestBodies ==
  {None, Some(RequestBody(None)),
   Some(RequestBody(Some(<<MediaType("text/plain", None)>>))),
   Some(RequestBody(Some(<<MediaType("text/plain", Some(Typed("string"))),
                           MediaType("application/json",
                             Some([Typed("object") EXCEPT
                                     !.properties = Some(<<<<"a", Typed("integer")>>,
                                                          <<"b", NullNode>>>>)]))>>)))}
ParameterDocuments ==
  {ApiDocument(TRUE, <<<<"/a", <<<<"get", OperationWith(Some(IdOfGet("/a")), o, b)>>>>>>>>,
               <<Server>>) :
     o \in OperationParameterLists, b \in RequestBodies}
  \cup {ApiDocument(TRUE, <<<<"/a", <<<<"parameters", ParameterList(p)>>,
                                      <<"get", OperationWith(Some(IdOfGet("/a")), o, b)>>>>>>>>,
                    <<Server>>) :
          p \in PathParameterLists, o \in OperationParameterLists, b \in RequestBodies}

\* Documents whose path item holds something other than an array under
\* `parameters`: an object, a string, null.
OddParameterDocuments ==
  {ApiDocument(TRUE, <<<<"/a", <<<<"get", OperationWith(Some(IdOfGet("/a")), o, None)>>,
                                   <<"parameters", v>>>>>>>>,
               <<Server>>) :
     v \in {OperationObject(None), StringValue, NullValue},
     o \in OperationParameterLists}

\* The operationId arguments: none, one that occurs, one that does not.
OperationIdArgs == {None, Some(<<"g", "a">>), Some(<<"z">>)}

\* Mutant: no key of a path item is skipped.
SkippedKey_None(method) == FALSE

\* if (method === 'parameters') continue
SkippedKey(method) == method = "parameters"

OperationEntry(path, method, id) == [path |-> path, method |-> method, operationId |-> id]
Extracted(ops) == [threw |-> FALSE, ops |-> ops]
TypeErrorThrown == [threw |-> TRUE, ops |-> <<>>]

RECURSIVE ExtractFromItem(_, _, _, _)
\* The inner loop of extractOperationsFromSpec over the entries of one path
\* item: `parameters` is skipped, an entry that does not match a requested
\* operationId is skipped, every other entry is pushed, and the loop ends
\* after a match. Reading op.operationId of null throws.
ExtractFromItem(path, entries, operationId, acc) ==
  IF entries = <<>> THEN Extracted(acc)
  ELSE LET method == entries[1][1]
           op == entries[1][2]
       IN  IF SkippedKey(method)
             THEN ExtractFromItem(path, Tail(entries), operationId, acc)
           ELSE IF op.kind = "null" THEN TypeErrorThrown
           ELSE IF Truthy(operationId) /\ ~SameOperationId(op, operationId.v)
             THEN ExtractFromItem(path, Tail(entries), operationId, acc)
           ELSE IF Truthy(operationId)
             THEN Extracted(Append(acc, OperationEntry(path, ToUpperCase(method),
                                                       op.operationId)))
           ELSE ExtractFromItem(path, Tail(entries), operationId,
                  Append(acc, OperationEntry(path, ToUpperCase(method), op.operationId)))

RECURSIVE ExtractFromPaths(_, _, _)
ExtractFromPaths(paths, operationId, acc) ==
  IF paths = <<>> THEN Extracted(acc)
  ELSE LET r == ExtractFromItem(paths[1][1], paths[1][2], operationId, acc)
       IN  IF r.threw THEN r ELSE ExtractFromPaths(Tail(paths), operationId, r.ops)

\* extractOperationsFromSpec(spec, operationId)
ExtractOperationsFromSpec(spec, operationId) ==
  IF spec.hasPaths THEN ExtractFromPaths(spec.paths, operationId, <<>>)
  ELSE Extracted(<<>>)

\* pathItem[method], undefined (here: null) when the key is absent.
Lookup(entries, key) ==
  IF \E i \in 1..Len(entries) : entries[i][1] = key
    THEN entries[CHOOSE i \in 1..Len(entries) : entries[i][1] = key][2]
  ELSE NullValue

\* The operations parseSchema collects for one path item.
OperationsOf(entries) ==
  LET present == SelectSeq(HttpMethods, LAMBDA m : ValueTruthy(Lookup(entries, m)))
  IN  [i \in 1..Len(present) |->
         [method |-> ToUpperCase(present[i]),
          operationId |-> Lookup(entries, present[i]).operationId]]

RECURSIVE EndpointsOf(_)
\* parsedSchema.endpoints: the paths that have operations.
EndpointsOf(paths) ==
  IF paths = <<>> THEN <<>>
  ELSE (IF OperationsOf(paths[1][2]) # <<>>
          THEN <<[path |-> paths[1][1], operations |-> OperationsOf(paths[1][2])]>>
          ELSE <<>>)
       \o EndpointsOf(Tail(paths))

\* OpenApiService.parseSchema(schema), as to the endpoints.
ParseSchema(schema) == [endpoints |-> EndpointsOf(schema.paths)]

\* The result of a tool handler.
ToolOperations(ops) == [isError |-> FALSE, kind |-> "operations", operations |-> ops]
ToolTemplate(endpoint, method, path, queryParams, headers, body) ==
  [isError |-> FALSE, kind |-> "template", endpoint |-> endpoint,
   method |-> method, path |-> path, queryParams |-> queryParams,
   headers |-> headers, body |-> body]
ToolError(m) == [isError |-> TRUE, kind |-> "error", message |-> m]

\* get_api_operations, the document given as specJson.
GetApiOperationsHandler(spec, operationId) ==
  LET r == ExtractOperationsFromSpec(spec, operationId)
  IN  IF r.threw
        THEN ToolError(<<"Error processing API operations: ", "TypeError">>)
      ELSE ToolOperations(r.ops)

Found(path, method, op) ==
  [threw |-> FALSE, found |-> TRUE, path |-> path, method |-> method, op |-> op]
NotFound == [threw |-> FALSE, found |-> FALSE, path |-> "", method |-> "", op |-> NullValue]
SearchThrew == [threw |-> TRUE, found |-> FALSE, path |-> "", method |-> "", op |-> NullValue]

RECURSIVE FindInItem(_, _, _)
FindInItem(path, entries, operationId) ==
  IF entries = <<>> THEN NotFound
  ELSE IF SkippedKey(entries[1][1]) THEN FindInItem(path, Tail(entries), operationId)
  ELSE IF entries[1][2].kind = "null" THEN SearchThrew
  ELSE IF SameOperationId(entries[1][2], operationId)
    THEN Found(path, ToUpperCase(entries[1][1]), entries[1][2])
  ELSE FindInItem(path, Tail(entries), operationId)

RECURSIVE FindOperation(_, _)
\* The search of generate_api_call for the operation with the given id.
FindOperation(paths, operationId) ==
  IF paths = <<>> THEN NotFound
  ELSE LET r == FindInItem(paths[1][1], paths[1][2], operationId)
       IN  IF r.threw \/ r.found THEN r ELSE FindOperation(Tail(paths), operationId)

\* path.startsWith('/') ? path.substring(1) : path, of the paths that occur
TemplatePath(path) ==
  CASE path = "/a" -> "a"
    [] path = "/b" -> "b"
    [] OTHER -> path

\* spec.paths[path]
PathItemAt(paths, path) ==
  paths[CHOOSE i \in 1..Len(paths) : paths[i][1] = path][2]

Spread(items) == [threw |-> FALSE, items |-> items]
NotIterable == [threw |-> TRUE, items |-> <<>>]

\* ...((spec.paths[path]).parameters || []): the members of an array, the
\* characters of a string (which have neither name nor in), nothing for a
\* missing or null value; an object is not iterable.
PathParameters(entries) ==
  LET v == Lookup(entries, "parameters")
  IN  CASE v.kind = "array" -> Spread(v.items)
        [] v.kind = "string" -> Spread([i \in 1..Len(v.items) |-> Parameter("", "", FALSE)])
        [] v.kind = "object" -> NotIterable
        [] OTHER -> Spread(<<>>)

\* `<${param.name}${param.required ? ' (required)' : ''}>`
Placeholder(param) ==
  "<" \o param.name \o (IF param.required THEN " (required)" ELSE "") \o ">"

RECURSIVE ProcessParameters(_, _, _)
\* The loop over the parameters: a query parameter sets its key of
\* queryParams, a header parameter its key of headers, any other is passed
\* over.
ProcessParameters(parameters, queryParams, headers) ==
  IF parameters = <<>> THEN [queryParams |-> queryParams, headers |-> headers]
  ELSE LET param == parameters[1]
       IN  IF param.in = "query"
             THEN ProcessParameters(Tail(parameters),
                    SetField(queryParams, param.name, Placeholder(param)), headers)
           ELSE IF param.in = "header"
             THEN ProcessParameters(Tail(parameters), queryParams,
                    SetField(headers, param.name, Placeholder(param)))
           ELSE ProcessParameters(Tail(parameters), queryParams, headers)

\* contentTypes.includes('application/json') ? 'application/json' : contentTypes[0]
PreferredType(content) ==
  IF \E i \in 1..Len(content) : content[i][1] = "application/json"
    THEN "application/json"
  ELSE content[1][1]

\* operation.requestBody.content[preferredType].schema
SchemaOf(content, type) ==
  content[CHOOSE i \in 1..Len(content) : content[i][1] = type][2].schema

\* The request body part: the Content-Type header and the body example.
WithRequestBody(operation, headers) ==
  IF operation.requestBody.some /\ OrEmpty(operation.requestBody.v.content) # <<>>
    THEN LET content == operation.requestBody.v.content.v
             preferredType == PreferredType(content)
             schema == SchemaOf(content, preferredType)
         IN  [headers |-> SetField(headers, "Content-Type", preferredType),
              body |-> IF schema.some /\ ~Falsy(schema.v)
                         THEN GenerateSchemaExample(schema.v)
                       ELSE JsUndefined]
  ELSE [headers |-> headers, body |-> JsUndefined]

RECURSIVE Stringify(_)
\* JSON.stringify, as to what it keeps: a property whose value is
\* undefined is left out, an undefined member of an array becomes null.
Stringify(v) ==
  CASE v.t = "object" ->
         LET kept == SelectSeq(v.fields, LAMBDA f : f[2].t # "undefined")
         IN  JsObject([i \in 1..Len(kept) |-> <<kept[i][1], Stringify(kept[i][2])>>])
    [] v.t = "array" ->
         JsArray([i \in 1..Len(v.items) |->
                    IF v.items[i].t = "undefined" THEN JsNull
                    ELSE Stringify(v.items[i])])
    [] OTHER -> v

\* callApi({ endpoint: specUrl, method: 'GET' }): no authType, no headers.
SpecRequest == [BaseConfig EXCEPT !.authType = "absent"]

\* generate_api_call once callApi has returned (or thrown) response, the
\* document spec being what a 2xx answer carries.
GenerateApiCallHandler(response, spec, operationId, serverIndex) ==
  LET r == FindOperation(spec.paths, operationId)
      n == Len(spec.servers)
  IN  IF response.kind = "threw"
        THEN ToolError(<<"Error generating API call template: ">> \o response.error)
      ELSE IF ~response.success
        THEN ToolError(<<"Error generating API call template: ",
                         "Failed to fetch OpenAPI spec: ">> \o response.error)
      ELSE IF r.threw
        THEN ToolError(<<"Error generating API call template: ", "TypeError">>)
      ELSE IF ~r.found
        THEN ToolError(<<"Error generating API call template: ", "Operation ID '",
                         operationId, "' not found in the OpenAPI spec">>)
      ELSE IF n = 0
        THEN ToolError(<<"Error generating API call template: ",
                         "No servers defined in the OpenAPI spec">>)
      ELSE IF Min(serverIndex, n - 1) < 0
        THEN ToolError(<<"Error generating API call template: ", "TypeError">>)
      ELSE IF PathParameters(PathItemAt(spec.paths, r.path)).threw
        THEN ToolError(<<"Error generating API call template: ", "TypeError">>)
      ELSE LET parameters == OrEmpty(r.op.parameters)
                               \o PathParameters(PathItemAt(spec.paths, r.path)).items
               processed == ProcessParameters(parameters, <<>>, <<>>)
               full == WithRequestBody(r.op, processed.headers)
           IN  ToolTemplate(spec.servers[Min(serverIndex, n - 1) + 1].url,
                            r.method, TemplatePath(r.path),
                            processed.queryParams, full.headers,
                            Stringify(full.body))

ServerIndexes == {0, 2}

\* schema.info?.title, absent or a string.
NoTitle == [some |-> FALSE, s |-> ""]
Title(t) == [some |-> TRUE, s |-> t]

\* The key parseSchema writes under: schema.info?.title || 'schema'
CacheKeyOf(title) == IF title.some /\ title.s # "" THEN title.s ELSE "schema"

\* this.cache[schema.info?.title || 'schema'] = parsedSchema
CacheWrite(cache, title, parsed) == (CacheKeyOf(title) :> parsed) @@ cache

IndexArgs(fn, spec, operationId, serverIndex) ==
  [fn |-> fn, spec |-> spec, operationId |-> operationId, serverIndex |-> serverIndex]

InitIndex ==
  /\ RestIdle
  /\ fnArgs \in
       {IndexArgs(f, d, o, 0) :
          f \in {"extractOperationsFromSpec", "get_api_operations"},
          d \in ApiDocuments, o \in OperationIdArgs}
       \cup {IndexArgs("parseSchema", d, None, 0) : d \in ApiDocuments}
       \cup {IndexArgs("generate_api_call", d, o, i) :
               d \in ApiDocuments \cup ParameterDocuments \cup OddParameterDocuments,
               o \in OperationIdArgs \ {None}, i \in ServerIndexes}
  /\ fnResult = NotApplied

ExtractCall ==
  /\ fnArgs.fn = "extractOperationsFromSpec" /\ ~fnResult.done
  /\ fnResult' = Applied(ExtractOperationsFromSpec(fnArgs.spec, fnArgs.operationId))
  /\ UNCHANGED <<svc, callVars, advVars, tmVars, now, fnArgs, oaVars>>

ParseSchemaCall ==
  /\ fnArgs.fn = "parseSchema" /\ ~fnResult.done
  /\ fnResult' = Applied(ParseSchema(fnArgs.spec))
  /\ schemaCache' = CacheWrite(schemaCache, NoTitle, ParseSchema(fnArgs.spec))
  /\ UNCHANGED <<svc, callVars, advVars, tmVars, now, fnArgs, schemaCalls, fetchLog>>

GetApiOperationsCall ==
  /\ fnArgs.fn = "get_api_operations" /\ ~fnResult.done
  /\ fnResult' = Applied(GetApiOperationsHandler(fnArgs.spec, fnArgs.operationId))
  /\ UNCHANGED <<svc, callVars, advVars, tmVars, now, fnArgs, oaVars>>

\* generate_api_call up to `await ApiService.callApi(...)`: the request for
\* the document is out.
GenerateApiCallCall ==
  /\ fnArgs.fn = "generate_api_call" /\ ~fnResult.done
  /\ SimpleCall(SpecRequest)

\* callApi has returned or thrown: the rest of the handler.
GenerateApiCallDone ==
  /\ fnArgs.fn = "generate_api_call" /\ ~fnResult.done
  /\ pc = "done"
  /\ fnResult' = Applied(GenerateApiCallHandler(result, fnArgs.spec,
                                                fnArgs.operationId.v,
                                                fnArgs.serverIndex))
  /\ UNCHANGED <<svc, callVars, advVars, tmVars, now, fnArgs, oaVars>>

NextIndex ==
  \/ ExtractCall
  \/ ParseSchemaCall
  \/ GetApiOperationsCall
  \/ GenerateApiCallCall
  \/ \E o \in SimpleOutcomes : SimpleResponse(o)
  \/ GenerateApiCallDone

SpecIndex == InitIndex /\ [][NextIndex]_vars

\* ------------------------------------- generateSchemaExample: the inputs
\* The nesting depth of the schemas drawn.
MaxDepth == 2

RefR == <<"#", "/", "r">>
LeafSchemas ==
  {NullNode, TrueNode, FalseNode, EmptyNode, Typed("foo"), Typed("string"),
   [Typed("string") EXCEPT !.enum = <<JsString("e")>>, !.format = "date"],
   [Typed("string") EXCEPT !.format = "uuid"],
   [Typed("integer") EXCEPT !.enum = <<JsNumber(7)>>],
   Typed("boolean"), Typed("null"), Typed("array"), Typed("object"),
   [Typed("string") EXCEPT !.ref = Some(RefR)],
   [Typed("number") EXCEPT !.ref = Some(<<>>)],
   [Typed("boolean") EXCEPT !.oneOf = Some(<<>>), !.anyOf = Some(<<>>)],
   [EmptyNode EXCEPT !.allOf = Some(<<>>)]}

\* The second members of the lists drawn.
SecondString == Typed("string")
SecondObject ==
  [Typed("object") EXCEPT
     !.properties = Some(<<<<"a", Typed("boolean")>>, <<"b", NullNode>>>>)]

\* The composite nodes over a given child.
Composites(c) ==
  {[Typed("number") EXCEPT !.oneOf = Some(<<c, SecondString>>)],
   [Typed("number") EXCEPT !.anyOf = Some(<<c, SecondObject>>)],
   [Typed("number") EXCEPT !.oneOf = Some(<<>>), !.anyOf = Some(<<c, SecondString>>)],
   [EmptyNode EXCEPT !.oneOf = Some(<<c>>), !.anyOf = Some(<<SecondString>>)],
   [EmptyNode EXCEPT !.allOf = Some(<<c, SecondObject>>)],
   [EmptyNode EXCEPT !.allOf = Some(<<SecondObject, c>>)],
   [Typed("object") EXCEPT !.properties = Some(<<<<"a", c>>, <<"b", SecondString>>>>)],
   [Typed("array") EXCEPT !.items = Some(<<c>>)],
   [Typed("object") EXCEPT !.ref = Some(RefR), !.oneOf = Some(<<c>>),
                           !.allOf = Some(<<SecondObject>>)]}

RECURSIVE Schemas(_)
\* The schemas nested up to a depth.
Schemas(depth) ==
  IF depth = 0 THEN LeafSchemas
  ELSE LET inner == Schemas(depth - 1)
       IN  inner \cup UNION {Composites(c) : c \in inner}

InitExample ==
  /\ RestIdle
  /\ fnArgs \in {[fn |-> "generateSchemaExample", schema |-> n] : n \in Schemas(MaxDepth)}
  /\ fnResult = NotApplied

GenerateSchemaExampleCall ==
  /\ fnArgs.fn = "generateSchemaExample" /\ ~fnResult.done
  /\ fnResult' = Applied(GenerateSchemaExample(fnArgs.schema))
  /\ UNCHANGED <<svc, callVars, advVars, tmVars, now, fnArgs, oaVars>>

NextExample == GenerateSchemaExampleCall

SpecExample == InitExample /\ [][NextExample]_vars

\* ------------------------------------------------------------ fetchSchema
\* The source urls, and the documents behind them: the document at "u1"
\* has no title, that at "u2" is titled "u1", that at "schema" has none.
Urls == {"u1", "u2", "schema"}
TitleAt(url) == IF url = "u2" THEN Title("u1") ELSE NoTitle
DocumentAt(url) ==
  IF url = "u2"
    THEN ApiDocument(TRUE, <<<<"/b", PathItem(<<"get">>, "/b")>>>>, <<Server>>)
  ELSE IF url = "u1"
    THEN ApiDocument(TRUE, <<<<"/a", PathItem(<<"parameters", "get">>, "/a")>>>>,
                     <<Server>>)
  ELSE ApiDocument(TRUE, <<<<"/a", PathItem(<<"post">>, "/a")>>>>, <<Server>>)

\* What the request for the document ends with (callApi's success), and
\* what SwaggerParser.dereference and SwaggerParser.bundle end with.
FetchOutcomes == {"ok", "failed"}
ParserOutcomes == {"ok", "throws"}

\* The most documents fetched in a behaviour.
MaxFetches == 3

SchemaAwaiting(p, url) == [pc |-> p, url |-> url, ok |-> FALSE]
SchemaReturned(url, parsed) == [pc |-> "done", url |-> url, ok |-> TRUE, schema |-> parsed]
SchemaThrew(url, m) == [pc |-> "done", url |-> url, ok |-> FALSE, msg |-> m]

\* `Failed to fetch or parse OpenAPI schema: ${error.message}`
FetchSchemaError(m) == <<"Failed to fetch or parse OpenAPI schema: ">> \o m

\* this.cache[url], as a condition
CacheHit(cache, url) == url \in DOMAIN cache

InitSchema ==
  /\ RestIdle
  /\ FnIdle
  /\ schemaCache = <<>> /\ schemaCalls = [p \in Procs |-> SchemaIdle]
  /\ fetchLog = NoFetches

\* fetchSchema(url) up to its first await: the cached schema is returned,
\* or the document is requested.
FetchSchemaStart(p, url) ==
  /\ schemaCalls[p].pc = "idle"
  /\ IF CacheHit(schemaCache, url)
       THEN /\ schemaCalls' = [schemaCalls EXCEPT ![p] = SchemaReturned(url, schemaCache[url])]
            /\ fetchLog' = [fetchLog EXCEPT !.succeeded = @ \cup {url}]
       ELSE /\ fetchLog.count < MaxFetches
            /\ schemaCalls' = [schemaCalls EXCEPT ![p] = SchemaAwaiting("fetching", url)]
            /\ fetchLog' = [fetchLog EXCEPT !.count = @ + 1]
  /\ UNCHANGED <<svc, callVars, advVars, tmVars, now, fnVars, schemaCache>>

\* callApi returns: a failed response is thrown as an Error; a document
\* is handed to SwaggerParser.dereference.
FetchSchemaResponse(p, outcome) ==
  /\ schemaCalls[p].pc = "fetching"
  /\ schemaCalls' = [schemaCalls EXCEPT ![p] =
       IF outcome = "ok" THEN SchemaAwaiting("dereferencing", schemaCalls[p].url)
       ELSE SchemaThrew(schemaCalls[p].url,
                        FetchSchemaError(<<"Failed to fetch OpenAPI schema: ",
                                           "Network Error">>))]
  /\ UNCHANGED <<svc, callVars, advVars, tmVars, now, fnVars, schemaCache, fetchLog>>

\* parseSchema(document) called from fetchSchema: the parsed schema is
\* cached under the title and returned.
FetchSchemaParsed(p) ==
  LET url == schemaCalls[p].url
      parsed == ParseSchema(DocumentAt(url))
  IN  /\ schemaCache' = CacheWrite(schemaCache, TitleAt(url), parsed)
      /\ schemaCalls' = [schemaCalls EXCEPT ![p] = SchemaReturned(url, parsed)]
      /\ fetchLog' = [fetchLog EXCEPT !.succeeded = @ \cup {url}]

\* SwaggerParser.dereference ends: its document is parsed, or, when it
\* threw, the document is handed to SwaggerParser.bundle.
FetchSchemaDereferenced(p, outcome) ==
  /\ schemaCalls[p].pc = "dereferencing"
  /\ IF outcome = "ok"
       THEN FetchSchemaParsed(p)
       ELSE /\ schemaCalls' = [schemaCalls EXCEPT ![p] =
                                 SchemaAwaiting("bundling", schemaCalls[p].url)]
            /\ UNCHANGED <<schemaCache, fetchLog>>
  /\ UNCHANGED <<svc, callVars, advVars, tmVars, now, fnVars>>

\* SwaggerParser.bundle ends: its document is parsed, or its exception is
\* wrapped and thrown.
FetchSchemaBundled(p, outcome) ==
  /\ schemaCalls[p].pc = "bundling"
  /\ IF outcome = "ok"
       THEN FetchSchemaParsed(p)
       ELSE /\ schemaCalls' = [schemaCalls EXCEPT ![p] =
                                 SchemaThrew(schemaCalls[p].url,
                                             FetchSchemaError(<<"boom">>))]
            /\ UNCHANGED <<schemaCache, fetchLog>>
  /\ UNCHANGED <<svc, callVars, advVars, tmVars, now, fnVars>>

\* The caller has its schema or its error.
FetchSchemaReturn(p) ==
  /\ schemaCalls[p].pc = "done"
  /\ schemaCalls' = [schemaCalls EXCEPT ![p] = SchemaIdle]
  /\ UNCHANGED <<svc, callVars, advVars, tmVars, now, fnVars, schemaCache, fetchLog>>

NextSchema ==
  \/ \E p \in Procs, url \in Urls : FetchSchemaStart(p, url)
  \/ \E p \in Procs, outcome \in FetchOutcomes : FetchSchemaResponse(p, outcome)
  \/ \E p \in Procs, outcome \in ParserOutcomes : FetchSchemaDereferenced(p, outcome)
  \/ \E p \in Procs, outcome \in ParserOutcomes : FetchSchemaBundled(p, outcome)
  \/ \E p \in Procs : FetchSchemaReturn(p)

SpecSchema == InitSchema /\ [][NextSchema]_vars

\* ------------------------------------------------- the token manager alone
\* The callers of either token manager, with the clock running.
InitToken ==
  /\ svc = "interactive"
  /\ CallIdle
  /\ msalConfigs = {} /\ msalAccounts = {} /\ azureCredentials = <<>>
  /\ authCalls = [p \in Procs |-> AuthIdle]
  /\ tmImpl \in {"global", "keyed"}
  /\ env \in Envs
  /\ tokenCache = <<>>
  /\ storedFor = <<>>
  /\ tmCalls = [p \in Procs |-> TmIdle]
  /\ now = 0
  /\ FnIdle
  /\ OaIdle

NextToken ==
  \/ \E p \in Procs, a \in TmArgs : TmStart(p, a[1], a[2])
  \/ \E p \in Procs, acq \in TmAcqOutcomes : TmAcquired(p, acq)
  \/ \E p \in Procs : TmReturn(p)
  \/ Tick

SpecToken == InitToken /\ [][NextToken]_vars

\* ================================================================ claims
\* ------------------------------------------- kusto-server: execute_query
\* Text is a sequence of characters; a character that has no printable
\* form is written by its code point, as in "U+00A0".
UpperCase == <<"A", "B", "C", "D", "E", "F", "G", "H", "I", "J", "K", "L", "M", "N", "O", "P", "Q", "R", "S", "T", "U", "V", "W", "X", "Y", "Z">>
LowerCase == <<"a", "b", "c", "d", "e", "f", "g", "h", "i", "j", "k", "l", "m", "n", "o", "p", "q", "r", "s", "t", "u", "v", "w", "x", "y", "z">>
Digit == <<"0", "1", "2", "3", "4", "5", "6", "7", "8", "9">>

\* The lower-case form of a character.
ToLowerChar(c) ==
  IF \E i \in 1..Len(UpperCase) : UpperCase[i] = c
    THEN LowerCase[CHOOSE i \in 1..Len(UpperCase) : UpperCase[i] = c]
  ELSE c

\* The classes \s and \w of a regular expression.
WhiteSpace ==
  {" ", "\t", "\n", "\r", "\f", "U+000B", "U+00A0", "U+1680", "U+2000",
   "U+2001", "U+2002", "U+2003", "U+2004", "U+2005", "U+2006", "U+2007",
   "U+2008", "U+2009", "U+200A", "U+2028", "U+2029", "U+202F", "U+205F",
   "U+3000", "U+FEFF"}
WordChars ==
  {UpperCase[i] : i \in 1..Len(UpperCase)} \cup {LowerCase[i] : i \in 1..Len(LowerCase)}
  \cup {Digit[i] : i \in 1..Len(Digit)} \cup {"_"}

\* The items of a pattern: a literal character, \s+, \s*, \w+.
Lit(c) == [class |-> "lit", c |-> c, rep |-> "one"]
Lits(text) == [i \in 1..Len(text) |-> Lit(text[i])]
SpacePlus == [class |-> "space", c |-> "", rep |-> "plus"]
SpaceStar == [class |-> "space", c |-> "", rep |-> "star"]
WordPlus == [class |-> "word", c |-> "", rep |-> "plus"]

\* Mutant: the patterns are matched without the flag i.
ItemMatches_CaseSensitive(item, c) ==
  CASE item.class = "lit" -> c = item.c
    [] item.class = "space" -> c \in WhiteSpace
    [] item.class = "word" -> c \in WordChars

\* One character against one item, under the flag i.
ItemMatches(item, c) ==
  CASE item.class = "lit" -> ToLowerChar(c) = ToLowerChar(item.c)
    [] item.class = "space" -> c \in WhiteSpace
    [] item.class = "word" -> c \in WordChars

RECURSIVE MatchHere(_, _)
\* The pattern matches a prefix of the text.
MatchHere(pattern, text) ==
  IF pattern = <<>> THEN TRUE
  ELSE IF pattern[1].rep = "star" /\ MatchHere(Tail(pattern), text) THEN TRUE
  ELSE IF text = <<>> THEN FALSE
  ELSE IF ~ItemMatches(pattern[1], text[1]) THEN FALSE
  ELSE IF pattern[1].rep = "one" THEN MatchHere(Tail(pattern), Tail(text))
  ELSE MatchHere(Tail(pattern), Tail(text)) \/ MatchHere(pattern, Tail(text))

\* pattern.test(query): the pattern matches somewhere in the text.
RegExpTest(pattern, text) ==
  \E i \in 0..Len(text) : MatchHere(pattern, SubSeq(text, i + 1, Len(text)))

\* controlCommandPatterns
ControlCommandPatterns ==
  <<Lits(<<"a", "l", "t", "e", "r">>) \o <<SpacePlus>> \o Lits(<<"t", "a", "b", "l", "e">>),
    Lits(<<"c", "r", "e", "a", "t", "e">>) \o <<SpacePlus>> \o Lits(<<"t", "a", "b", "l", "e">>),
    Lits(<<"d", "r", "o", "p">>) \o <<SpacePlus>> \o Lits(<<"t", "a", "b", "l", "e">>),
    Lits(<<"s", "e", "t">>) \o <<SpacePlus>>,
    Lits(<<"f", "u", "n", "c", "t", "i", "o", "n">>),
    Lits(<<"p", "o", "l", "i", "c", "y">>),
    Lits(<<"p", "u", "r", "g", "e">>),
    Lits(<<"i", "n", "g", "e", "s", "t", "i", "o", "n">>),
    Lits(<<"d", "a", "t", "a", "b", "a", "s", "e">>),
    Lits(<<"c", "l", "u", "s", "t", "e", "r">>),
    Lits(<<"m", "a", "n", "a", "g", "e", "m", "e", "n", "t">>),
    Lits(<<"|">>) \o <<SpaceStar>> \o Lits(<<"r", "e", "n", "d", "e", "r">>),
    Lits(<<"l", "e", "t">>) \o <<SpacePlus, WordPlus, SpaceStar>> \o Lits(<<"=">>)>>

\* The loop over the patterns: some pattern matches the query.
ForbiddenQuery(query) ==
  \E i \in 1..Len(ControlCommandPatterns) : RegExpTest(ControlCommandPatterns[i], query)

RECURSIVE NumberToString(_)
\* `${maxRows}` of a non-negative integer.
NumberToString(n) ==
  IF n < 10 THEN <<Digit[n + 1]>>
  ELSE NumberToString(n \div 10) \o <<Digit[(n % 10) + 1]>>

\* The default of the parameter maxRows.
DefaultMaxRows == 100

\* { maxRows = 100 }
MaxRowsOf(maxRows) == IF maxRows.some THEN maxRows.n ELSE DefaultMaxRows

\* `${query} | take ${maxRows}`
SafeQuery(query, maxRows) ==
  query \o <<" ", "|", " ", "t", "a", "k", "e", " ">> \o NumberToString(MaxRowsOf(maxRows))

\* What the handler returns, with the calls of KustoService.executeQuery it
\* has made.
ForbiddenAnswer == [kind |-> "forbidden", detail |-> "", calls |-> <<>>]
QueryResults(rows, made) == [kind |-> "results", detail |-> rows, calls |-> made]
QueryError(message, made) == [kind |-> "error", detail |-> message, calls |-> made]
ServiceCall(clusterUrl, database, query) ==
  [clusterUrl |-> clusterUrl, database |-> database, query |-> query]
Awaiting(made) == [done |-> FALSE, awaiting |-> TRUE, calls |-> made]

\* What KustoService.executeQuery may do: resolve with rows, reject with an
\* Error.
ServiceOutcomes == {[ok |-> TRUE, detail |-> "rows"], [ok |-> FALSE, detail |-> "failed"]}

\* The queries of the test suite, and some more.
TestQueries ==
  {<<"a", "l", "t", "e", "r", " ", "t", "a", "b", "l", "e", " ", "T", "e", "s", "t", "T", "a", "b", "l", "e">>,
   <<"c", "r", "e", "a", "t", "e", " ", "t", "a", "b", "l", "e", " ", "N", "e", "w", "T", "a", "b", "l", "e">>,
   <<"d", "r", "o", "p", " ", "t", "a", "b", "l", "e", " ", "O", "l", "d", "T", "a", "b", "l", "e">>,
   <<"s", "e", "t", " ", "q", "u", "o", "t", "a", "s">>,
   <<".", "s", "h", "o", "w", " ", "f", "u", "n", "c", "t", "i", "o", "n">>,
   <<".", "s", "h", "o", "w", " ", "p", "o", "l", "i", "c", "y">>,
   <<".", "p", "u", "r", "g", "e", " ", "t", "a", "b", "l", "e">>,
   <<".", "s", "h", "o", "w", " ", "i", "n", "g", "e", "s", "t", "i", "o", "n">>,
   <<".", "s", "h", "o", "w", " ", "m", "a", "n", "a", "g", "e", "m", "e", "n", "t">>,
   <<"S", "t", "o", "r", "m", "E", "v", "e", "n", "t", "s", " ", "|", " ", "r", "e", "n", "d", "e", "r", " ", "t", "i", "m", "e", "c", "h", "a", "r", "t">>,
   <<".", "s", "h", "o", "w", " ", "d", "a", "t", "a", "b", "a", "s", "e">>,
   <<"c", "l", "u", "s", "t", "e", "r", "(", "\"", "o", "t", "h", "e", "r", "\"", ")">>,
   <<"l", "e", "t", " ", "v", "a", "r", " ", "=", " ", "1", "0">>}
OtherQueries ==
  {<<"T", "e", "s", "t", "T", "a", "b", "l", "e", " ", "|", " ", "c", "o", "u", "n", "t">>,
   <<"T", "e", "s", "t", "T", "a", "b", "l", "e">>,
   <<"A", "L", "T", "E", "R", " ", " ", "T", "A", "B", "L", "E", " ", "T">>,
   <<"D", "r", "o", "p", "\t", "T", "a", "b", "l", "e", " ", "T">>,
   <<"T", " ", "|", " ", "s", "u", "m", "m", "a", "r", "i", "z", "e", " ", "m", "a", "k", "e", "_", "s", "e", "t", "(", "x", ")">>,
   <<"T", " ", "|", "r", "e", "n", "d", "e", "r", " ", "p", "i", "e", "c", "h", "a", "r", "t">>,
   <<"T", " ", "|", " ", "w", "h", "e", "r", "e", " ", "P", "o", "l", "i", "c", "y", " ", "=", "=", " ", "1">>,
   <<"l", "e", "t", "x", "=", "1">>,
   <<"l", "e", "t", " ", " ", "v", "2", "=", "1">>,
   <<"T", " ", "|", " ", "R", "E", "N", "D", "E", "R", " ", "x">>,
   <<"d", "a", "t", "a", "s", "e", "t">>,
   <<"d", "r", "o", "p", "U+00A0", "t", "a", "b", "l", "e", " ", "T">>,
   <<"a", "l", "t", "e", "r", "U+000B", "U+2028", "t", "a", "b", "l", "e">>,
   <<"l", "e", "t", "U+FEFF", "v", "U+3000", "=", "1">>,
   <<"s", "e", "t", "U+200B", "x">>,
   <<"T", " ", "|", " ", "e", "x", "t", "e", "n", "d", " ", "a", " ", "=", " ", "1">>}

\* The pieces short queries are put together from, and how many of them.
Fragments ==
  {<<"s", "e", "t">>, <<" ">>, <<"l", "e", "t">>, <<"v">>, <<"=">>, <<"|">>,
   <<"r", "e", "n", "d", "e", "r">>, <<"\t">>, <<"U+000B">>}
MaxFragments == 3

RECURSIVE Concatenations(_)
Concatenations(n) ==
  IF n = 0 THEN {<<>>}
  ELSE LET shorter == Concatenations(n - 1)
       IN  shorter \cup {s \o f : s \in shorter, f \in Fragments}

\* z.string().min(1)
Queries == (TestQueries \cup OtherQueries \cup Concatenations(MaxFragments)) \ {<<>>}
MaxRowsArgs == {NoNum, Num(1), Num(50)}

InitKusto ==
  /\ RestIdle
  /\ fnArgs \in {[fn |-> "execute_query", clusterUrl |-> "https://test.kusto.windows.net",
                   database |-> "testdb", query |-> q, maxRows |-> m] :
                    q \in Queries, m \in MaxRowsArgs}
  /\ fnResult = NotApplied

\* The handler up to its return or its await.
ExecuteQueryStart ==
  /\ fnArgs.fn = "execute_query" /\ fnResult = NotApplied
  /\ fnResult' =
       IF ForbiddenQuery(fnArgs.query) THEN Applied(ForbiddenAnswer)
       ELSE Awaiting(<<ServiceCall(fnArgs.clusterUrl, fnArgs.database,
                                   SafeQuery(fnArgs.query, fnArgs.maxRows))>>)
  /\ UNCHANGED <<svc, callVars, advVars, tmVars, now, fnArgs, oaVars>>

\* The service has answered: the handler returns the rows or the message.
ExecuteQueryDone(outcome) ==
  /\ fnArgs.fn = "execute_query" /\ ~fnResult.done /\ fnResult # NotApplied
  /\ fnResult' =
       IF outcome.ok THEN Applied(QueryResults(outcome.detail, fnResult.calls))
       ELSE Applied(QueryError(outcome.detail, fnResult.calls))
  /\ UNCHANGED <<svc, callVars, advVars, tmVars, now, fnArgs, oaVars>>

NextKusto ==
  \/ ExecuteQueryStart
  \/ \E outcome \in ServiceOutcomes : ExecuteQueryDone(outcome)

SpecKusto == InitKusto /\ [][NextKusto]_vars

\* --------------------------------------------------- reference encodings
\* The base64 alphabet of RFC 4648, as character codes.
RefAlphabet ==
  <<65, 66, 67, 68, 69, 70, 71, 72, 73, 74, 75, 76, 77, 78, 79, 80, 81, 82, 83,
    84, 85, 86, 87, 88, 89, 90, 97, 98, 99, 100, 101, 102, 103, 104, 105, 106,
    107, 108, 109, 110, 111, 112, 113, 114, 115, 116, 117, 118, 119, 120, 121,
    122, 48, 49, 50, 51, 52, 53, 54, 55, 56, 57, 43, 47>>

RECURSIVE RefBits(_)
\* The bits of a byte string, most significant first.
RefBits(bytes) ==
  IF bytes = <<>> THEN <<>>
  ELSE [i \in 1..8 |-> (Head(bytes) \div (2 ^ (8 - i))) % 2] \o RefBits(Tail(bytes))

\* RFC 4648: the bit string, zero-padded to whole groups of six bits, each
\* group a digit of the alphabet, "=" added up to a multiple of four digits.
RefBase64(bytes) ==
  LET raw == RefBits(bytes)
      bits == raw \o [i \in 1..((6 - (Len(raw) % 6)) % 6) |-> 0]
      n == Len(bits) \div 6
      val(k) == 32 * bits[6 * k - 5] + 16 * bits[6 * k - 4] + 8 * bits[6 * k - 3]
                  + 4 * bits[6 * k - 2] + 2 * bits[6 * k - 1] + bits[6 * k]
      digits == [k \in 1..n |-> RefAlphabet[val(k) + 1]]
  IN  digits \o [i \in 1..((4 - (n % 4)) % 4) |-> 61]

\* A request has been issued by the call in progress.
Issued == pc \in {"await", "backoff", "attempt", "done"} /\ calls > 0

\* C1: in the advanced callApi, under a transport that fails with a simulated
\* HTTP 503 on the first two attempts and succeeds on the third, a call with
\* retryCount >= 2 (whose header resolutions do not fail) ends with
\* success = true after exactly 3 transport invocations.
C1_Retry503ThenSuccess ==
  (/\ svc = "advanced" /\ pc = "done" /\ stub = Stub503Twice
   /\ config.retryCount.some /\ config.retryCount.n >= 2
   /\ ~authFailed)
  => (result.kind = "returned" /\ result.success /\ result.status = 200
      /\ calls = 3)

C1_Witness ==
  /\ svc = "advanced" /\ pc = "done" /\ stub = Stub503Twice
  /\ config.retryCount.some /\ config.retryCount.n >= 2
  /\ result.success /\ calls = 3 /\ retryCount = 2

\* The last axios invocation ended with HTTP status s, as a response or as
\* an error carrying the response.
EndedWithStatus(s) ==
  \/ lastOutcome.resolved /\ lastOutcome.status = s
  \/ ~lastOutcome.resolved /\ lastOutcome.err.kind = "axios"
       /\ lastOutcome.err.hasResp /\ lastOutcome.err.status = s

\* C2: in the advanced callApi, an HTTP status s >= 400 other than 502, 503
\* and 504 ends the call at once: the envelope has success = false and
\* status = s, and the invocation that got s is the last one (exactly one
\* invocation when it is the first attempt), whatever budget remains.
C2_NoRetryOnHttpError ==
  \A s \in {t \in Statuses : t >= 400 /\ t \notin {502, 503, 504}} :
    (svc = "advanced" /\ EndedWithStatus(s))
    => (/\ pc = "done"
        /\ result.kind = "returned" /\ ~result.success /\ result.status = s
        /\ calls = retryCount + 1)

C2_Witness ==
  /\ svc = "advanced" /\ pc = "done" /\ lastOutcome = Resolve(404)
  /\ retryCount = 0 /\ maxRetries >= 1 /\ calls = 1
  /\ ~result.success /\ result.status = 404

\* The retry budget the descriptor states: retryCount, 3 when absent.
StatedBudget(cfg) == IF cfg.retryCount.some THEN cfg.retryCount.n ELSE 3

\* C3 (as claimed): for every retryCount n >= 0 (3 when absent) the advanced
\* callApi invokes the transport at most n + 1 times, and a call that ends
\* on a failed attempt reports the last observed error.
C3_AtMostNPlusOneCalls ==
  (svc = "advanced" /\ StatedBudget(config) >= 0)
  => (/\ calls <= StatedBudget(config) + 1
      /\ (pc = "done" /\ calls > 0 /\ ~authFailed /\ ~lastOutcome.resolved)
           => result = ErrorResponse(lastOutcome.err))

\* C4 (as claimed): every callApi call completes by returning an envelope
\* with success and status set; no exception leaves callApi.
C4_AlwaysAnEnvelope ==
  pc = "done"
  => (result.kind = "returned" /\ result.success \in BOOLEAN /\ result.status > 0)

\* C5 (as claimed): when a header resolution fails, callApi returns
\* success = false, status 401 and an "Authentication error" message, and no
\* HTTP request is issued by the call.
C5_Original ==
  authFailed
  => (/\ pc = "done"
      /\ result.kind = "returned" /\ ~result.success /\ result.status = 401
      /\ result.error[1] = "Authentication error: "
      /\ calls = 0)

\* C5 (amended): when a header resolution fails, callApi returns
\* success = false, status 401 and an "Authentication error" message; the
\* attempt whose resolution failed issues no request and nothing is retried,
\* whatever budget remains: the only requests of the call are those of the
\* earlier attempts (one per attempt), none in the services without retry.
C5_AuthFailureReturns401 ==
  authFailed
  => (/\ pc = "done"
      /\ result.kind = "returned" /\ ~result.success /\ result.status = 401
      /\ result.error[1] = "Authentication error: "
      /\ calls = retryCount
      /\ resolutions = retryCount + 1
      /\ (svc # "advanced" => calls = 0))

C5_Witness ==
  /\ authFailed /\ svc = "advanced" /\ pc = "done"
  /\ retryCount < maxRetries /\ calls = 0 /\ result.status = 401

\* C6 (as claimed): with authType none the outgoing request carries no
\* Authorization header, whatever the other fields of the descriptor.
C6_Original ==
  (Issued /\ config.authType = "none") => outAuth = None

\* C6 (amended): with authType none callApi adds no Authorization header of
\* its own, whatever the credential fields of the descriptor: the outgoing
\* request carries exactly the Authorization entry of the caller's headers,
\* and none when the caller supplied none.
C6_NoneAddsNoHeader ==
  (Issued /\ config.authType = "none") => outAuth = config.callerAuth

C6_Witness ==
  /\ Issued /\ config.authType = "none" /\ Truthy(config.token)
  /\ ~config.callerAuth.some /\ outAuth = None

\* C7 (as claimed): with authType bearer and authConfig.token = T the
\* outgoing Authorization header is "Bearer " + T, whatever Authorization
\* value the caller's headers hold.
C7_Original ==
  (Issued /\ config.authType = "bearer" /\ config.token.some)
  => outAuth = Some(<<66, 101, 97, 114, 101, 114, 32>> \o config.token.v)

\* "Basic " + base64(U + ":" + P), P empty when absent.
ExpectedBasic(cfg) ==
  Some(<<66, 97, 115, 105, 99, 32>>
         \o RefBase64(Utf8(cfg.username.v \o <<58>>
                             \o (IF cfg.password.some THEN cfg.password.v ELSE <<>>))))

\* C8 (as claimed): with authType basic, username U and password P (empty
\* when absent) the outgoing Authorization header is
\* "Basic " + base64(U + ":" + P).
C8_Original ==
  (Issued /\ config.authType = "basic" /\ config.username.some)
  => outAuth = ExpectedBasic(config)

\* C9 (as claimed): with authType bearer and no token, or authType basic and
\* no username, the call fails at once: no HTTP request is issued.
C9_MissingFieldFails ==
  (\/ config.authType = "bearer" /\ ~config.token.some
   \/ config.authType = "basic" /\ ~config.username.some)
  => (calls = 0 /\ (pc = "done" => (result.kind = "returned" /\ ~result.success)))

\* The cache entry a call with arguments a reads holds a token that has not
\* reached its (buffered) expiry.
CachedAndValid(a) ==
  LET key == TmKey(tmImpl, a[1], a[2], env)
  IN  /\ ~(tmImpl = "keyed" /\ a[1] = "" /\ env.clientId = "")
      /\ key \in DOMAIN tokenCache
      /\ ~tokenCache[key].nan
      /\ tokenCache[key].expiresAt > now

\* C10: a getAccessToken call made while the entry of its (clientId,
\* tenantId), cached by an earlier call, is still valid completes at once
\* with the cached token: it makes no acquisition and leaves the cache as
\* it was.
C10_CachedTokenReused ==
  [][\A p \in Procs, a \in TmArgs :
       (/\ tmCalls[p].pc = "idle" /\ tmCalls'[p].pc # "idle"
        /\ tmCalls'[p].clientId = a[1] /\ tmCalls'[p].tenantId = a[2]
        /\ CachedAndValid(a))
       => (/\ tmCalls'[p].pc = "done"
           /\ tmCalls'[p].ok
           /\ tmCalls'[p].token = tokenCache[TmKey(tmImpl, a[1], a[2], env)].token
           /\ tmCalls'[p].acquired = 0
           /\ tokenCache' = tokenCache)]_vars

C10_Witness ==
  \E p \in Procs :
    /\ tmCalls[p].pc = "done" /\ tmCalls[p].ok /\ tmCalls[p].acquired = 0
    /\ tmImpl = "keyed" /\ now > 0
    /\ \A q \in Procs \ {p} : tmCalls[q].pc = "idle"
    /\ CachedAndValid(<<tmCalls[p].clientId, tmCalls[p].tenantId>>)
    /\ tmCalls[p].token
         = tokenCache[TmKey(tmImpl, tmCalls[p].clientId, tmCalls[p].tenantId, env)].token

\* The key of the call caller p has in progress or has completed.
KeyOfCall(p) == TmKey(tmImpl, tmCalls[p].clientId, tmCalls[p].tenantId, env)

\* Caller p starts a call in this step, and the call is not refused.
Starts(p) ==
  /\ tmCalls[p].pc = "idle" /\ tmCalls'[p].pc # "idle"
  /\ ~(tmCalls'[p].pc = "done" /\ ~tmCalls'[p].ok)

\* The key of the call caller p starts or completes in this step.
KeyOfCallAfter(p) == TmKey(tmImpl, tmCalls'[p].clientId, tmCalls'[p].tenantId, env)

\* C11: getAccessToken returns a cached token only at a time before the
\* entry's expiresAt; a call that finds an entry whose expiresAt has been
\* reached performs an acquisition; and a successful acquisition stores,
\* under the call's key, its token with expiresAt = tokenExpiry - 5 minutes.
C11_ExpiryBuffer ==
  [][\A p \in Procs :
       /\ (Starts(p) /\ tmCalls'[p].pc = "done")
            => (/\ KeyOfCallAfter(p) \in DOMAIN tokenCache
                /\ ~tokenCache[KeyOfCallAfter(p)].nan
                /\ now < tokenCache[KeyOfCallAfter(p)].expiresAt
                /\ tmCalls'[p].token = tokenCache[KeyOfCallAfter(p)].token)
       /\ (/\ Starts(p) /\ KeyOfCallAfter(p) \in DOMAIN tokenCache
           /\ (\/ tokenCache[KeyOfCallAfter(p)].nan
               \/ now >= tokenCache[KeyOfCallAfter(p)].expiresAt))
            => (tmCalls'[p].pc = "acquiring" /\ tmCalls'[p].acquired = 1)
       /\ (/\ tmCalls[p].pc = "acquiring" /\ tmCalls'[p].pc = "done"
           /\ tmCalls'[p].ok /\ tmCalls'[p].expiry.some)
            => (/\ KeyOfCallAfter(p) \in DOMAIN tokenCache'
                /\ tokenCache'[KeyOfCallAfter(p)].token = tmCalls'[p].token
                /\ ~tokenCache'[KeyOfCallAfter(p)].nan
                /\ tokenCache'[KeyOfCallAfter(p)].expiresAt
                     = tmCalls'[p].expiry.n - 5 * 60 * 1000)]_vars

\* A caller's token has reached its buffered expiry, and a later call with
\* the same key has acquired another token, which is the one now cached.
C11_Witness ==
  \E p \in Procs, q \in Procs :
    /\ p # q
    /\ tmCalls[q].pc = "done" /\ tmCalls[q].ok /\ tmCalls[q].expiry.some
    /\ tmCalls[q].expiry.n - 5 * 60 * 1000 > 0
    /\ tmCalls[q].expiry.n - 5 * 60 * 1000 <= now
    /\ tmCalls[p].pc = "done" /\ tmCalls[p].ok /\ tmCalls[p].acquired = 1
    /\ tmCalls[p].expiry.some /\ tmCalls[p].expiry.n > tmCalls[q].expiry.n
    /\ KeyOfCall(p) = KeyOfCall(q)
    /\ tmCalls[p].token # tmCalls[q].token
    /\ tokenCache[KeyOfCall(p)].token = tmCalls[p].token
    /\ tokenCache[KeyOfCall(p)].expiresAt = tmCalls[p].expiry.n - 5 * 60 * 1000

\* The (clientId, tenantId) pair the call caller p starts in this step is
\* made for.
PairAfter(p) == AcquiredFor(tmImpl, tmCalls'[p].clientId, tmCalls'[p].tenantId, env)

\* C12 (as claimed): a call that is answered from the cache gets a token
\* that was acquired for its own (clientId, tenantId) pair, never one
\* acquired for a different pair.
C12_KeyIsolation ==
  [][\A p \in Procs :
       (Starts(p) /\ tmCalls'[p].pc = "done")
       => (/\ KeyOfCallAfter(p) \in DOMAIN storedFor
           /\ storedFor[KeyOfCallAfter(p)] = PairAfter(p))]_vars

\* Caller p's acquisition completes with a token in this step.
Completes(p) ==
  tmCalls[p].pc = "acquiring" /\ tmCalls'[p].pc = "done" /\ tmCalls'[p].ok

\* C13: there is no single-flight: a call that finds no entry for its key
\* starts an acquisition even while another caller's acquisition for the
\* same key is in flight; each acquisition that completes hands its caller
\* its own token and writes that token into the entry of the key, and
\* nothing else writes the cache, so that after both callers have completed
\* the entry holds the token of the acquisition that completed last.
C13_LastWriterWins ==
  [][/\ \A p \in Procs :
          (Starts(p) /\ KeyOfCallAfter(p) \notin DOMAIN tokenCache)
          => (tmCalls'[p].pc = "acquiring" /\ tokenCache' = tokenCache)
     /\ \A p \in Procs :
          Completes(p)
          => (/\ tmCalls'[p].acquired = 1
              /\ KeyOfCallAfter(p) \in DOMAIN tokenCache'
              /\ tokenCache'[KeyOfCallAfter(p)].token = tmCalls'[p].token
              /\ \A q \in Procs \ {p} : tmCalls'[q] = tmCalls[q])
     /\ (tokenCache' # tokenCache) => (\E p \in Procs : Completes(p))]_vars

\* Both callers have acquired a token for the same key, each token good for
\* longer than the buffer (so neither call began after the other's
\* completion), each holds its own, and the cache holds one of the two.
C13_Witness ==
  \E p \in Procs, q \in Procs :
    /\ p # q /\ KeyOfCall(p) = KeyOfCall(q)
    /\ tmCalls[p].pc = "done" /\ tmCalls[p].ok /\ tmCalls[p].acquired = 1
    /\ tmCalls[q].pc = "done" /\ tmCalls[q].ok /\ tmCalls[q].acquired = 1
    /\ tmCalls[p].token # tmCalls[q].token
    /\ tmCalls[p].expiry.some /\ tmCalls[p].expiry.n - 5 * 60 * 1000 > now
    /\ tmCalls[q].expiry.some /\ tmCalls[q].expiry.n - 5 * 60 * 1000 > now
    /\ tokenCache[KeyOfCall(p)].token = tmCalls[p].token

\* The endpoint has no trailing slash, the path is non-empty and has no
\* leading slash.
Normal(e, p) ==
  /\ (e = <<>> \/ e[Len(e)] # "/")
  /\ p.some /\ p.v # <<>> /\ p.v[1] # "/"

\* C14: for every endpoint e without trailing slash and non-empty path p
\* without leading slash, buildUrl(e, p) is e + "/" + p followed by the
\* query string, buildUrl(e + "/", "/" + p) is the same URL, and of an
\* endpoint e + "//" exactly one slash is stripped.
C14_SlashNormalised ==
  (fnArgs.fn = "buildUrl" /\ fnResult.done /\ Normal(fnArgs.endpoint, fnArgs.path))
  => LET e == fnArgs.endpoint
         p == fnArgs.path.v
         q == fnArgs.queryParams
         tail == IF q.some /\ q.v # <<>>
                   THEN SubSeq(fnResult.v, Len(e) + Len(p) + 2, Len(fnResult.v))
                   ELSE <<>>
     IN  /\ fnResult.v = e \o <<"/">> \o p \o tail
         /\ (tail # <<>> => tail[1] = "?")
         /\ BuildUrl(e \o <<"/">>, Some(<<"/">> \o p), q) = fnResult.v
         /\ BuildUrl(e \o <<"/">>, Some(p), q) = fnResult.v
         /\ BuildUrl(e, Some(<<"/">> \o p), q) = fnResult.v
         /\ BuildUrl(e \o <<"/", "/">>, Some(p), q) = e \o <<"/", "/">> \o p \o tail

C14_Witness ==
  /\ fnArgs.fn = "buildUrl" /\ fnResult.done
  /\ fnArgs.endpoint = <<"h">> /\ fnArgs.path = Some(<<"p">>)
  /\ fnArgs.queryParams = None
  /\ fnResult.v = <<"h", "/", "p">>
  /\ BuildUrl(<<"h", "/">>, Some(<<"/", "p">>), None) = <<"h", "/", "p">>

\* The keys of a path item.
KeysOf(entries) == {entries[i][1] : i \in 1..Len(entries)}

\* The entries of an operation list that belong to a path.
EntriesFor(ops, path) == SelectSeq(ops, LAMBDA e : e.path = path)

\* The operation list a (completed, successful) indexing run produced:
\* that of extractOperationsFromSpec or get_api_operations, or the
\* operations of parseSchema's endpoints, each with its path.
RECURSIVE Flatten(_)
Flatten(endpoints) ==
  IF endpoints = <<>> THEN <<>>
  ELSE [i \in 1..Len(endpoints[1].operations) |->
          [path |-> endpoints[1].path,
           method |-> endpoints[1].operations[i].method,
           operationId |-> endpoints[1].operations[i].operationId]]
       \o Flatten(Tail(endpoints))

Indexed ==
  /\ fnResult.done
  /\ CASE fnArgs.fn = "extractOperationsFromSpec" -> ~fnResult.v.threw
       [] fnArgs.fn = "get_api_operations" -> ~fnResult.v.isError
       [] fnArgs.fn = "parseSchema" -> TRUE
       [] OTHER -> FALSE

IndexedList ==
  CASE fnArgs.fn = "extractOperationsFromSpec" -> fnResult.v.ops
    [] fnArgs.fn = "get_api_operations" -> fnResult.v.operations
    [] fnArgs.fn = "parseSchema" -> Flatten(fnResult.v.endpoints)
    [] OTHER -> <<>>

\* C15: when a document is indexed (without operationId filter), a path
\* whose item holds a `parameters` key and a `get` operation has exactly one
\* entry in the operation list, the GET operation; and no entry of any
\* operation list stands for a `parameters` key.
C15_ParametersSkipped ==
  Indexed
  => (/\ \A i \in 1..Len(IndexedList) : IndexedList[i].method # "PARAMETERS"
      /\ ~Truthy(fnArgs.operationId)
           => \A i \in 1..Len(fnArgs.spec.paths) :
                KeysOf(fnArgs.spec.paths[i][2]) = {"parameters", "get"}
                => (/\ Len(EntriesFor(IndexedList, fnArgs.spec.paths[i][1])) = 1
                    /\ EntriesFor(IndexedList, fnArgs.spec.paths[i][1])[1].method = "GET"))

C15_Witness ==
  /\ fnArgs.fn = "extractOperationsFromSpec" /\ fnResult.done
  /\ fnArgs.operationId = None
  /\ fnArgs.spec.paths = <<<<"/a", <<<<"parameters", ArrayValue>>,
                                     <<"get", OperationObject(Some(<<"g", "a">>))>>>>>>>>
  /\ fnResult.v.ops = <<[path |-> "/a", method |-> "GET", operationId |-> Some(<<"g", "a">>)]>>

\* C16 (as claimed): every entry of an indexed operation list comes from
\* one of the keys get/post/put/delete/patch/options/head of its path item;
\* no other key yields an entry.
C16_OnlyHttpMethods ==
  Indexed
  => \A i \in 1..Len(IndexedList) :
       IndexedList[i].method
         \in {"GET", "POST", "PUT", "DELETE", "PATCH", "OPTIONS", "HEAD"}

\* C17 (as claimed): when a single operation is requested by operationId
\* and no operation of the document has that id, get_api_operations and
\* generate_api_call answer with an error.
C17_UnknownIdIsAnError ==
  (/\ fnResult.done /\ fnArgs.fn \in {"get_api_operations", "generate_api_call"}
   /\ Truthy(fnArgs.operationId)
   /\ \A i \in 1..Len(fnArgs.spec.paths) :
        \A j \in 1..Len(fnArgs.spec.paths[i][2]) :
          fnArgs.spec.paths[i][2][j][2].operationId # fnArgs.operationId)
  => fnResult.v.isError

\* C18 (as claimed): once fetchSchema(U) has succeeded, every later
\* fetchSchema(U) returns the schema parsed for U from the cache, without
\* fetching the document again; and no cache entry is ever removed.
C18_SchemaCachedByUrl ==
  [][/\ \A u \in Urls, p \in Procs :
          (schemaCalls[p].pc = "idle" /\ schemaCalls'[p].pc # "idle"
             /\ schemaCalls'[p].url = u /\ u \in fetchLog.succeeded)
          => (/\ schemaCalls'[p].pc = "done" /\ schemaCalls'[p].ok
              /\ schemaCalls'[p].schema = ParseSchema(DocumentAt(u))
              /\ fetchLog'.count = fetchLog.count)
     /\ DOMAIN schemaCache \subseteq DOMAIN schemaCache']_vars

RECURSIVE IsJsValue(_)
\* A JavaScript value all the way down (nothing thrown inside it).
IsJsValue(v) ==
  CASE v.t \in {"undefined", "null", "string", "number", "boolean"} -> TRUE
    [] v.t = "object" -> \A i \in 1..Len(v.fields) : IsJsValue(v.fields[i][2])
    [] v.t = "array" -> \A i \in 1..Len(v.items) : IsJsValue(v.items[i])
    [] OTHER -> FALSE

\* A node none of the rules recognizes: no $ref, no alternatives, no allOf,
\* and a type that is absent or not one of the seven.
Unrecognized(n) ==
  \/ n.kind # "object"
  \/ /\ ~n.ref.some /\ ~n.oneOf.some /\ ~n.anyOf.some /\ ~n.allOf.some
     /\ n.type \notin {"object", "array", "string", "number", "integer",
                       "boolean", "null"}

\* C19: for every schema node (nested $ref, oneOf, anyOf, allOf, properties
\* and items, empty alternative lists, null members, absent or unknown
\* type) generateSchemaExample returns a value and throws nothing, and a
\* node no rule recognizes yields undefined.
C19_ExampleIsTotal ==
  (fnArgs.fn = "generateSchemaExample" /\ fnResult.done)
  => (/\ IsJsValue(fnResult.v)
      /\ Unrecognized(fnArgs.schema) => fnResult.v = [t |-> "undefined"])

\* A nested node with null members and an empty alternative list.
C19_Witness ==
  /\ fnArgs.fn = "generateSchemaExample" /\ fnResult.done
  /\ fnArgs.schema.allOf.some /\ Len(fnArgs.schema.allOf.v) = 2
  /\ fnArgs.schema.allOf.v[1].items.some
  /\ fnArgs.schema.allOf.v[1].items.v[1] = NullNode
  /\ fnArgs.schema.allOf.v[2].properties.some
  /\ fnResult.v = [t |-> "object",
                   fields |-> <<<<"a", [t |-> "boolean", b |-> FALSE]>>,
                                <<"b", [t |-> "undefined"]>>>>]

\* C20 (as claimed): a node carrying a (non-empty) $ref yields the
\* placeholder object holding the ref string, whatever else it declares;
\* otherwise a node with a non-empty oneOf or a non-empty anyOf yields the
\* example of the first listed alternative, whatever its own type.
C20_RuleOrder ==
  (fnArgs.fn = "generateSchemaExample" /\ fnResult.done
     /\ fnArgs.schema.kind = "object")
  => LET n == fnArgs.schema
     IN  /\ (n.ref.some /\ n.ref.v # <<>>)
              => fnResult.v = [t |-> "object",
                               fields |-> <<<<"$ref", [t |-> "string", s |-> n.ref.v]>>>>]
         /\ (~n.ref.some /\ n.oneOf.some /\ n.oneOf.v # <<>>)
              => fnResult.v = GenerateSchemaExample(n.oneOf.v[1])
         /\ (~n.ref.some /\ ~(n.oneOf.some /\ n.oneOf.v # <<>>)
               /\ n.anyOf.some /\ n.anyOf.v # <<>>)
              => fnResult.v = GenerateSchemaExample(n.anyOf.v[1])

\* The sentinels of the string formats, as the type table states them.
Sentinel(format) ==
  IF format = "date" THEN "2023-01-01"
  ELSE IF format = "date-time" THEN "2023-01-01T00:00:00Z"
  ELSE IF format = "email" THEN "user@example.com"
  ELSE IF format = "uuid" THEN "00000000-0000-0000-0000-000000000000"
  ELSE "<string value>"

\* A node the type table is about: an object without $ref, oneOf, anyOf and
\* allOf whose type is one of string, number, integer, boolean, object,
\* array.
Tabled(n) ==
  /\ n.kind = "object"
  /\ ~n.ref.some /\ ~n.oneOf.some /\ ~n.anyOf.some /\ ~n.allOf.some
  /\ n.type \in {"string", "number", "integer", "boolean", "object", "array"}

\* The example the type table gives for a node, given the example it gives
\* for an array.
TypeTable(n, ofArray) ==
  CASE n.type = "string" ->
         IF n.enum # <<>> THEN n.enum[1]
         ELSE [t |-> "string", s |-> Sentinel(n.format)]
    [] n.type \in {"number", "integer"} ->
         IF n.enum # <<>> THEN n.enum[1] ELSE [t |-> "number", n |-> 0]
    [] n.type = "boolean" -> [t |-> "boolean", b |-> FALSE]
    [] n.type = "object" ->
         [t |-> "object",
          fields |-> IF n.properties.some
                       THEN [i \in 1..Len(n.properties.v) |->
                               <<n.properties.v[i][1],
                                 GenerateSchemaExample(n.properties.v[i][2])>>]
                     ELSE <<>>]
    [] n.type = "array" -> ofArray

\* C21 (as claimed): a node without $ref, oneOf, anyOf and allOf follows the
\* type table, and an array gives a one-element sequence holding the items
\* example whenever items is present, the empty sequence only when items
\* is absent.
C21_Original ==
  (fnArgs.fn = "generateSchemaExample" /\ fnResult.done /\ Tabled(fnArgs.schema))
  => LET n == fnArgs.schema
     IN  fnResult.v =
           TypeTable(n, [t |-> "array",
                         items |-> IF n.items.some
                                     THEN <<GenerateSchemaExample(n.items.v[1])>>
                                   ELSE <<>>])

\* C21: a node without $ref, oneOf, anyOf and allOf follows the type table:
\* string gives the first enum value when enum is non-empty, else the
\* format sentinel, else "<string value>"; number and integer give the
\* first enum value, else 0; boolean gives false; object gives a mapping
\* with the example of each declared property, in order; array gives a
\* one-element sequence holding the items example when items is a node
\* other than null and false, and the empty sequence when items is absent,
\* null or false.
C21_TypeTable ==
  (fnArgs.fn = "generateSchemaExample" /\ fnResult.done /\ Tabled(fnArgs.schema))
  => LET n == fnArgs.schema
     IN  fnResult.v =
           TypeTable(n, [t |-> "array",
                         items |-> IF n.items.some
                                        /\ n.items.v[1].kind \notin {"null", "false"}
                                     THEN <<GenerateSchemaExample(n.items.v[1])>>
                                   ELSE <<>>])

\* An object whose first property is an array of strings with a format.
C21_Witness ==
  /\ fnArgs.fn = "generateSchemaExample" /\ fnResult.done /\ Tabled(fnArgs.schema)
  /\ fnArgs.schema.type = "object" /\ fnArgs.schema.properties.some
  /\ fnArgs.schema.properties.v[1][2].type = "array"
  /\ fnArgs.schema.properties.v[1][2].items.some
  /\ fnResult.v = [t |-> "object",
                   fields |-> <<<<"a", [t |-> "array",
                                        items |-> <<[t |-> "string",
                                                     s |-> "00000000-0000-0000-0000-000000000000"]>>]>>,
                                <<"b", [t |-> "string", s |-> "<string value>"]>>>>]

\* The placeholder stated for a declared parameter.
StatedPlaceholder(d) ==
  IF d.required THEN "<" \o d.name \o " (required)>" ELSE "<" \o d.name \o ">"

\* mapping[name] is the given text.
Holds(mapping, name, text) ==
  \E i \in 1..Len(mapping) : mapping[i] = <<name, text>>

\* The parameters declared for the chosen operation, the two lists taken
\* together: those of the operation, and those of its path item that the
\* operation does not declare itself (same name, same location).
OperationLevel(args) ==
  LET e == args.spec.paths[1][2] IN OrEmpty(e[Len(e)][2].parameters)
PathLevel(args) ==
  LET e == args.spec.paths[1][2] IN IF Len(e) = 2 THEN e[1][2].items ELSE <<>>
Declared(args) ==
  OperationLevel(args)
  \o SelectSeq(PathLevel(args),
               LAMBDA d : \A i \in 1..Len(OperationLevel(args)) :
                            ~(OperationLevel(args)[i].name = d.name
                              /\ OperationLevel(args)[i].in = d.in))

\* A call of generate_api_call on a document that declares parameters which
\* has answered with a template.
TemplateBuilt ==
  /\ fnArgs.fn = "generate_api_call" /\ fnResult.done
  /\ fnArgs.spec \in ParameterDocuments
  /\ fnResult.v.kind = "template"

\* C22 (as claimed): the template holds the placeholder "<name (required)>"
\* (required) or "<name>" (optional) under queryParams for every declared
\* query parameter and under headers for every declared header parameter of
\* the chosen operation, the operation-level and the path-level lists taken
\* together.
C22_PlaceholderPerParameter ==
  TemplateBuilt
  => \A i \in 1..Len(Declared(fnArgs)) :
       LET d == Declared(fnArgs)[i]
       IN  /\ d.in = "query"
                => Holds(fnResult.v.queryParams, d.name, StatedPlaceholder(d))
           /\ d.in = "header"
                => Holds(fnResult.v.headers, d.name, StatedPlaceholder(d))

\* A (lower-case) word at a place of a text, whatever the case of the text.
At(text, i, word) ==
  /\ i + Len(word) - 1 <= Len(text)
  /\ \A k \in 1..Len(word) : ToLowerChar(text[i + k - 1]) = word[k]
Contains(text, word) == \E i \in 1..Len(text) : At(text, i, word)

\* Only white space at the places from..to of a text.
Blank(text, from, to) == \A k \in from..to : text[k] \in WhiteSpace

\* One word, one or more white space characters, another word.
TwoWords(text, first, second) ==
  \E i \in 1..Len(text) :
    /\ At(text, i, first)
    /\ \E j \in (i + Len(first) + 1)..Len(text) :
         At(text, j, second) /\ Blank(text, i + Len(first), j - 1)

\* The forbidden commands as stated: alter table, create table, drop
\* table, set (followed by white space), function, policy, purge,
\* ingestion, management, and a pipe followed by render.
StatedForbidden(query) ==
  \/ TwoWords(query, <<"a", "l", "t", "e", "r">>, <<"t", "a", "b", "l", "e">>)
  \/ TwoWords(query, <<"c", "r", "e", "a", "t", "e">>, <<"t", "a", "b", "l", "e">>)
  \/ TwoWords(query, <<"d", "r", "o", "p">>, <<"t", "a", "b", "l", "e">>)
  \/ \E i \in 1..Len(query) :
        At(query, i, <<"s", "e", "t">>) /\ i + 3 <= Len(query) /\ query[i + 3] \in WhiteSpace
  \/ \E w \in {<<"f", "u", "n", "c", "t", "i", "o", "n">>,
                <<"p", "o", "l", "i", "c", "y">>,
                <<"p", "u", "r", "g", "e">>,
                <<"i", "n", "g", "e", "s", "t", "i", "o", "n">>,
                <<"m", "a", "n", "a", "g", "e", "m", "e", "n", "t">>} : Contains(query, w)
  \/ \E i \in 1..Len(query) :
        /\ query[i] = "|"
        /\ \E j \in (i + 1)..Len(query) :
             At(query, j, <<"r", "e", "n", "d", "e", "r">>) /\ Blank(query, i + 1, j - 1)

RECURSIVE DecimalValue(_)
\* The number a decimal numeral denotes.
DecimalValue(numeral) ==
  IF numeral = <<>> THEN 0
  ELSE DecimalValue(SubSeq(numeral, 1, Len(numeral) - 1)) * 10
       + (CHOOSE d \in 0..9 : Digit[d + 1] = numeral[Len(numeral)])

\* The calls of KustoService.executeQuery the handler has made so far.
ServiceCalls ==
  IF fnResult = NotApplied THEN <<>>
  ELSE IF fnResult.done THEN fnResult.v.calls
  ELSE fnResult.calls

\* C23: execute_query calls KustoService.executeQuery at most once, only
\* with the cluster, the database and the text "<query> | take <maxRows>"
\* (maxRows being 100 when not given), and only for a query that matches
\* none of the forbidden patterns; a query that matches alter table, create
\* table, drop table, set, function, policy, purge, ingestion, management
\* or "| render", in any case, is answered with the forbidden-commands
\* error and the service is never called.
C23_OnlySafeQueriesRun ==
  fnArgs.fn = "execute_query"
  => /\ Len(ServiceCalls) <= 1
     /\ \A i \in 1..Len(ServiceCalls) :
          LET call == ServiceCalls[i]
              n == Len(fnArgs.query)
          IN  /\ ~StatedForbidden(fnArgs.query)
              /\ call.clusterUrl = fnArgs.clusterUrl
              /\ call.database = fnArgs.database
              /\ Len(call.query) > n + 8
              /\ SubSeq(call.query, 1, n + 8) = fnArgs.query \o <<" ", "|", " ", "t", "a", "k", "e", " ">>
              /\ call.query[n + 9] # "0"
              /\ DecimalValue(SubSeq(call.query, n + 9, Len(call.query)))
                   = (IF fnArgs.maxRows.some THEN fnArgs.maxRows.n ELSE 100)
     /\ (StatedForbidden(fnArgs.query) /\ fnResult # NotApplied)
          => (fnResult.done /\ fnResult.v.kind = "forbidden")

\* The query of the test is run with the default limit, and its rows are
\* returned.
C23_Witness ==
  /\ fnArgs.fn = "execute_query" /\ fnResult.done
  /\ fnArgs.query = <<"T", "e", "s", "t", "T", "a", "b", "l", "e", " ", "|", " ", "c", "o", "u", "n", "t">>
  /\ ~fnArgs.maxRows.some
  /\ fnResult.v.kind = "results"
  /\ fnResult.v.calls = <<[clusterUrl |-> "https://test.kusto.windows.net",
                           database |-> "testdb",
                           query |-> <<"T", "e", "s", "t", "T", "a", "b", "l", "e", " ", "|", " ", "c", "o", "u", "n", "t", " ", "|", " ", "t", "a", "k", "e", " ", "1", "0", "0">>]>>

\* let, white space, a name, optional white space, an equals sign.
LetBinding(query) ==
  \E i \in 1..Len(query) :
    /\ At(query, i, <<"l", "e", "t">>)
    /\ \E a \in (i + 3)..Len(query) :
         /\ Blank(query, i + 3, a)
         /\ \E b \in (a + 1)..Len(query) :
              /\ \A k \in (a + 1)..b : query[k] \in WordChars
              /\ \E e \in (b + 1)..Len(query) :
                   Blank(query, b + 1, e - 1) /\ query[e] = "="

\* C24 (as claimed): a query that mentions database or cluster or holds a
\* let binding, and matches none of the forbidden patterns, is accepted:
\* KustoService.executeQuery is called for it.
C24_DatabaseClusterLetAccepted ==
  (/\ fnArgs.fn = "execute_query" /\ fnResult # NotApplied
   /\ ~StatedForbidden(fnArgs.query)
   /\ \/ Contains(fnArgs.query, <<"d", "a", "t", "a", "b", "a", "s", "e">>)
      \/ Contains(fnArgs.query, <<"c", "l", "u", "s", "t", "e", "r">>)
      \/ LetBinding(fnArgs.query))
  => Len(ServiceCalls) = 1

\* Caller p of getAuthorizationHeader starts a resolution in this step.
Resolves(p) == authCalls[p].pc = "idle" /\ authCalls'[p].pc # "idle"

\* The key stated for a descriptor: clientId or "default", tenantId or
\* "default".
StatedCredentialKey(cfg) ==
  (IF cfg.clientId = "" THEN "default" ELSE cfg.clientId) \o ":"
    \o (IF cfg.tenantId = "" THEN "default" ELSE cfg.tenantId)

\* C25: with authType azure-identity, over any sequence of calls (and with
\* two calls in flight), a resolution constructs at most one credential
\* object, and only under a key (clientId or "default", tenantId or
\* "default") that holds none; a credential once stored stays as it is and
\* is the one used afterwards; nothing but the start of a resolution
\* changes the stored credentials; and every resolution that has scopes and
\* a credential asks it for a token once, for the first entry of scopes,
\* whether or not an earlier call got a token.
C25_CredentialOncePerKey ==
  [][/\ \A k \in DOMAIN azureCredentials :
          k \in DOMAIN azureCredentials'
            /\ azureCredentials'[k] = azureCredentials[k]
     /\ azureCredentials' # azureCredentials
          => \E p \in Procs :
               Resolves(p) /\ authCalls'[p].cfg.authType = "azure-identity"
     /\ \A p \in Procs :
          (Resolves(p) /\ authCalls'[p].cfg.authType = "azure-identity")
          => LET cfg == authCalls'[p].cfg
                 key == StatedCredentialKey(cfg)
                 log == authCalls'[p].log
             IN  /\ log.created \in {0, 1}
                 /\ key \in DOMAIN azureCredentials => log.created = 0
                 /\ log.created = 0 => azureCredentials' = azureCredentials
                 /\ log.created = 1
                      => DOMAIN azureCredentials' = DOMAIN azureCredentials \cup {key}
                 /\ IF OrEmpty(cfg.scopes) # <<>> /\ key \in DOMAIN azureCredentials'
                      THEN /\ authCalls'[p].pc = "getToken"
                           /\ log.getToken = 1
                           /\ log.scopes = <<cfg.scopes.v[1]>>
                    ELSE log.getToken = 0 /\ authCalls'[p].pc = "done"]_vars

\* The second resolution of a call reuses the credential the first one
\* constructed and asks it for a token again.
C25_Witness ==
  /\ svc = "advanced" /\ config.authType = "azure-identity"
  /\ config.clientId = "c1" /\ resolutions = 2
  /\ lastAuth.created = 0 /\ lastAuth.getToken = 1 /\ lastAuth.scopes = <<"s1">>
  /\ DOMAIN azureCredentials = {"default:default", "c1:t1"}

\* C26: in one msal header resolution (of either call in flight) the
\* silent acquisition is attempted exactly when the client holds a
\* previously authenticated account at the time its accounts are read; the
\* device-code acquisition is invoked if and only if there is no such
\* account or the silent attempt failed, by throwing or by giving no result
\* (it is then made after the silent one); each is attempted at most once;
\* and a failed device-code attempt fails the resolution: the call ends with
\* the authentication error.
C26_SilentThenDeviceCode ==
  [][/\ \A p \in Procs :
          LET c == authCalls[p]
              d == authCalls'[p]
              hadAccount == MsalCacheKey(c.cfg) \in msalAccounts
          IN  /\ (c.pc = "accounts" /\ d # c)
                   => IF hadAccount
                        THEN d.pc = "silent" /\ d.log.silent = 1 /\ d.log.device = 0
                        ELSE d.pc = "device" /\ d.log.silent = 0 /\ d.log.device = 1
              /\ (c.pc = "silent" /\ d # c)
                   => /\ d.log.silent = 1 /\ d.log.silentResult # ""
                      /\ d.pc \in {"device", "done"}
                      /\ d.pc = "device" <=> d.log.silentResult \in {"fail", "null"}
                      /\ d.log.device = IF d.pc = "device" THEN 1 ELSE 0
              /\ (c.pc = "device" /\ d # c)
                   => /\ d.pc = "done" /\ d.log.device = 1
                      /\ d.log.silent = c.log.silent
                      /\ d.log.deviceResult # ""
                      /\ d.log.deviceResult \in {"fail", "null"} => ~d.ok
     /\ (svc = "advanced" /\ pc = "auth" /\ pc' # "auth" /\ ~authCalls[1].ok)
          => (authFailed' /\ pc' = "done" /\ result'.status = 401
                /\ calls' = calls)]_vars

\* The silent attempt of a resolution failed, the device-code attempt that
\* followed succeeded, and the request went out.
C26_Witness ==
  /\ svc = "advanced" /\ config.authType = "msal" /\ pc = "await"
  /\ lastAuth.silent = 1 /\ lastAuth.silentResult = "fail"
  /\ lastAuth.device = 1 /\ lastAuth.deviceResult = "ok"
  /\ outAuth = Some(BearerHeader(TokDevice))

\* The least of two numbers.
Least(a, b) == IF a <= b THEN a ELSE b

\* C27: the wait set after failed attempt k is min(1000 * 2^k + jitter,
\* 10000) ms for some 0 <= jitter < 1000, so it is never below
\* min(1000 * 2^k, 10000) ms and never above 10000 ms; while it is pending
\* no request is issued, and the next attempt starts only once the wait has
\* elapsed.
C27_BackoffDelay ==
  [][/\ pc' = "backoff"
          => LET k == retryCount'
             IN  /\ \E jitter \in 0..999 :
                      delay' = Least(1000 * (2 ^ k) + jitter, 10000)
                 /\ delay' >= Least(1000 * (2 ^ k), 10000)
                 /\ delay' <= 10000
     /\ pc = "backoff"
          => /\ calls' = calls /\ resolutions' = resolutions
             /\ pc' \in {"backoff", "attempt"}
             /\ pc' = "attempt" => (waited >= delay /\ retryCount' = retryCount + 1)]_vars

\* The wait after the fifth failed attempt (k = 4) is capped at 10000 ms
\* and has elapsed.
C27_Witness ==
  /\ pc = "backoff" /\ retryCount = 4 /\ calls = 5
  /\ delay = 10000 /\ waited >= delay

\* C28: callApi leaves the caller's request descriptor unchanged: during
\* and after any call, successful or failed and with any number of
\* retries, the descriptor and its headers hold the values they had when
\* the call was made (the Authorization header is added to a copy).
C28_DescriptorUnchanged ==
  pc # "idle" => config = submitted

\* A call that sent a header of its own while the caller's headers carry
\* another, retried once and completed.
C28_Witness ==
  /\ pc = "done" /\ svc = "advanced" /\ calls = 2 /\ resolutions = 2
  /\ submitted.callerAuth # None /\ outAuth # None
  /\ outAuth # submitted.callerAuth
  /\ config = submitted

\* C29: in the advanced callApi with authType msal or azure-identity the
\* authorization header is resolved anew in every pass of the retry loop:
\* a request is issued only by the step that takes up the header resolved
\* for it, so each request has its own resolution, and a resolution that
\* fails in a later pass ends the call with status 401 after the requests
\* of the earlier passes.
C29_ResolvedEveryAttempt ==
  [][(svc = "advanced" /\ config'.authType \in {"msal", "azure-identity"})
     => /\ calls' = calls + 1
             => (/\ pc = "auth" /\ authCalls[1].pc = "done" /\ authCalls[1].ok
                 /\ resolutions' = resolutions /\ resolutions = calls + 1)
        /\ pc' = "auth"
             => (resolutions' = calls' + 1 /\ calls' = retryCount')
        /\ pc' \in {"await", "backoff"}
             => (resolutions' = calls' /\ calls' = retryCount' + 1)
        /\ (pc' = "done" /\ authFailed')
             => (/\ result'.kind = "returned" /\ ~result'.success
                 /\ result'.status = 401
                 /\ calls' = retryCount' /\ resolutions' = calls' + 1)]_vars

\* The header was resolved and a request sent in the first pass; the
\* resolution of the second pass failed and the call ended with 401.
C29_Witness ==
  /\ svc = "advanced" /\ config.authType \in {"msal", "azure-identity"}
  /\ pc = "done" /\ authFailed
  /\ calls = 1 /\ resolutions = 2 /\ retryCount = 1
  /\ result.status = 401

\* The acquisition of caller p fails in this step.
Fails(p) ==
  tmCalls[p].pc = "acquiring" /\ tmCalls'[p].pc = "done" /\ ~tmCalls'[p].ok

\* C30: a getAccessToken call whose acquisition fails leaves the token
\* cache as it is: the step in which the acquisition fails adds no entry,
\* overwrites none (an expired entry of the call's key stays as it was,
\* the entries of other keys are untouched), and hands the caller an error
\* and no token.
C30_FailureLeavesCache ==
  [][\A p \in Procs :
       Fails(p)
       => (/\ DOMAIN tokenCache' = DOMAIN tokenCache
           /\ \A k \in DOMAIN tokenCache : tokenCache'[k] = tokenCache[k]
           /\ tmCalls'[p].msg # "" /\ tmCalls'[p].token = <<>>
           /\ tmCalls'[p].acquired = 1)]_vars

\* A call has failed while the cache holds an expired entry under its key
\* and an entry under another key.
C30_Witness ==
  \E p \in Procs :
    /\ tmCalls[p].pc = "done" /\ ~tmCalls[p].ok /\ tmCalls[p].acquired = 1
    /\ KeyOfCall(p) \in DOMAIN tokenCache
    /\ ~tokenCache[KeyOfCall(p)].nan /\ tokenCache[KeyOfCall(p)].expiresAt <= now
    /\ \E k \in DOMAIN tokenCache : k # KeyOfCall(p)

====
